---- MODULE Spec2Model ----
(***************************************************************************)
(* Model of the trading core of autotrader-backend:                        *)
(*   RiskManager   (src/src/services/risk_manager.py)                      *)
(*   TradeExecutor (src/src/services/trade_executor.py)                    *)
(*   DataIngestionService (src/src/services/data_ingestion.py)             *)
(*   the trading, risk and market data endpoints (src/src/api/v1)          *)
(* Prices, sizes and balances are whole numbers; a ratio is compared by    *)
(* cross-multiplication, keeping the sign of the divisor as Python's float *)
(* division does.  An exception is the value Raise of the operator that    *)
(* models the raising expression; a call of a method the class does not    *)
(* define raises AttributeError at the call.                               *)
(***************************************************************************)
EXTENDS Integers, Sequences, FiniteSets, TLC

\* ------------------------------------------------------------------ bounds
\* number of update_risk_metrics calls explored in one behaviour
MaxUpdates == 11
\* number of rows in the trades table at start-up
MaxTrades == 2

\* --------------------------------------------------------- configuration
MAX_POSITION_SIZE == 1000
MAX_DAILY_TRADES == 10
\* STOP_LOSS_PERCENTAGE = 0.02 = StopLossNum / StopLossDen
StopLossNum == 2
StopLossDen == 100

Symbols == {"BTC-USD", "ETH-USD"}
\* two consecutive UTC dates, as datetime.utcnow().date().isoformat() gives
Days == <<"2026-01-01", "2026-01-02">>

\* ------------------------------------------------------------ result values
Raise == "Raise"
RTrue == "True"
RFalse == "False"
RNone == "None"
ROrder == "Order"

Abs(x) == IF x < 0 THEN -x ELSE x

\* --------------------------------------------------------------- signals
\* A trade signal dict.  absent: the keys that are missing or None.
Signal(sym, entry, stop, psize, ab, ex) ==
    [symbol |-> sym, entry_price |-> entry, stop_loss |-> stop,
     position_size |-> psize, absent |-> ab, exchange |-> ex]

Signals ==
    { Signal(s, e, sl, p, {}, "binance") :
        s \in Symbols, e \in {100, 0}, sl \in {98, 97}, p \in {1, 11} }
    \cup { Signal("BTC-USD", 100, 98, 1, {"position_size"}, "binance"),
           Signal("BTC-USD", 100, 98, 1, {"symbol"}, "binance"),
           Signal("BTC-USD", 100, 98, 1, {"stop_loss"}, "binance"),
           Signal("BTC-USD", 100, 98, 1, {}, "absent"),
           Signal("ETH-USD", 100, 98, 4, {}, "deribit"),
           Signal("ETH-USD", 100, 98, 7, {}, "kraken") }

\* ------------------------------------------------------------ trades table
\* exit_time: "none" (NULL), "recent" (within 30 days) or "old".
\* pnl 0 stands for NULL as well: `if trade.pnl` treats both alike.
TradeRow(sym, dir, st, q, p, xt, pl) ==
    [symbol |-> sym, direction |-> dir, status |-> st, quantity |-> q,
     entry_price |-> p, exit_time |-> xt, pnl |-> pl]

TradeRows ==
    { TradeRow("BTC-USD", "LONG", "FILLED", 1, 300, "none", 0),
      TradeRow("ETH-USD", "SHORT", "FILLED", 2, 300, "none", 0),
      TradeRow("BTC-USD", "LONG", "PENDING", 1, 500, "none", 0),
      TradeRow("ETH-USD", "LONG", "FILLED", 1, 500, "recent", 100) }

RECURSIVE SeqsUpTo(_, _)
SeqsUpTo(S, n) ==
    IF n = 0 THEN {<<>>}
    ELSE LET shorter == SeqsUpTo(S, n - 1)
         IN shorter \cup { Append(q, x) : q \in shorter, x \in S }

\* the query without its exit_time condition
RECURSIVE AnyFilledFrom(_, _)
AnyFilledFrom(table, i) ==
    IF i > Len(table) THEN <<>>
    ELSE IF table[i].status = "FILLED"
         THEN <<i>> \o AnyFilledFrom(table, i + 1)
         ELSE AnyFilledFrom(table, i + 1)

\* the query without its status condition
RECURSIVE OpenAnyStatusFrom(_, _)
OpenAnyStatusFrom(table, i) ==
    IF i > Len(table) THEN <<>>
    ELSE IF table[i].exit_time = "none"
         THEN <<i>> \o OpenAnyStatusFrom(table, i + 1)
         ELSE OpenAnyStatusFrom(table, i + 1)

\* the rows of `select(Trade).where(exit_time IS NULL, status = 'FILLED')`,
\* as the ids (1-based row numbers) in table order
RECURSIVE OpenFilledFrom(_, _)
OpenFilledFrom(table, i) ==
    IF i > Len(table) THEN <<>>
    ELSE IF table[i].exit_time = "none" /\ table[i].status = "FILLED"
         THEN <<i>> \o OpenFilledFrom(table, i + 1)
         ELSE OpenFilledFrom(table, i + 1)

OpenFilledIds(table) == OpenFilledFrom(table, 1)

SeqToSet(q) == { q[i] : i \in 1..Len(q) }

\* ============================================================ RiskManager
\* the f"{symbol}_{today}" key of daily_trades
SymbolKey(sym, day) == <<sym, day>>

DailyKeys == { SymbolKey(s, Days[d]) : s \in Symbols, d \in 1..Len(Days) }

\* daily_trades.get(key, 0): a key the dict lacks counts 0
DailyCount(dt, sym, day) == dt[SymbolKey(sym, day)]

RECURSIVE SumNotional(_, _)
SumNotional(pos, ids) ==
    IF ids = {} THEN 0
    ELSE LET i == CHOOSE x \in ids : TRUE
         IN pos[i].size * pos[i].price + SumNotional(pos, ids \ {i})

\* sum(pos["size"] * pos["price"] for pos in self.positions.values())
CurrentExposure(pos) == SumNotional(pos, DOMAIN pos)

\* _validate_position_size: a None position_size raises TypeError, which the
\* method's own handler turns into False
ValidatePositionSize(pos, sig) ==
    IF "position_size" \in sig.absent THEN FALSE
    ELSE LET new_exposure == sig.position_size * sig.entry_price
         IN ~(CurrentExposure(pos) + new_exposure > MAX_POSITION_SIZE)

\* abs(entry - stop) / entry > stop_loss_percentage, by cross-multiplication
StopLossPctExceeds(entry, stop) ==
    IF entry > 0
    THEN Abs(entry - stop) * StopLossDen > StopLossNum * entry
    ELSE Abs(entry - stop) * StopLossDen < StopLossNum * entry

\* _validate_stop_loss: a missing stop_loss or entry_price = 0 raises inside
\* the method's try, whose handler returns False
ValidateStopLoss(sig) ==
    IF "stop_loss" \in sig.absent \/ sig.entry_price = 0 THEN FALSE
    ELSE ~StopLossPctExceeds(sig.entry_price, sig.stop_loss)

\* a drawdown check that answers that the drawdown is within its limit
CheckDrawdownLimitTrue == RTrue

\* `await self._check_drawdown_limit()`: RiskManager defines no such method,
\* the attribute lookup raises AttributeError
CheckDrawdownLimit == Raise

\* validate_trade answering True where the daily limit is reached (line 35)
ValidateTradeBodyDailyTrue(dt, pos, day, sig) ==
    IF "symbol" \in sig.absent THEN Raise
    ELSE IF DailyCount(dt, sig.symbol, day) >= MAX_DAILY_TRADES THEN RTrue
    ELSE IF ~ValidatePositionSize(pos, sig) THEN RFalse
    ELSE IF CheckDrawdownLimit = Raise THEN Raise
    ELSE IF CheckDrawdownLimit # RTrue THEN RFalse
    ELSE IF ~ValidateStopLoss(sig) THEN RFalse
    ELSE RTrue

\* validate_trade answering True where the exposure check fails (line 39)
ValidateTradeBodySizeTrue(dt, pos, day, sig) ==
    IF "symbol" \in sig.absent THEN Raise
    ELSE IF DailyCount(dt, sig.symbol, day) >= MAX_DAILY_TRADES THEN RFalse
    ELSE IF ~ValidatePositionSize(pos, sig) THEN RTrue
    ELSE IF CheckDrawdownLimit = Raise THEN Raise
    ELSE IF CheckDrawdownLimit # RTrue THEN RFalse
    ELSE IF ~ValidateStopLoss(sig) THEN RFalse
    ELSE RTrue

\* the try body of validate_trade, lines 29-49
ValidateTradeBody(dt, pos, day, sig) ==
    IF "symbol" \in sig.absent THEN Raise
    ELSE IF DailyCount(dt, sig.symbol, day) >= MAX_DAILY_TRADES THEN RFalse
    ELSE IF ~ValidatePositionSize(pos, sig) THEN RFalse
    ELSE IF CheckDrawdownLimit = Raise THEN Raise
    ELSE IF CheckDrawdownLimit # RTrue THEN RFalse
    ELSE IF ~ValidateStopLoss(sig) THEN RFalse
    ELSE RTrue

\* validate_trade whose handler answers True (fails open)
ValidateTradeFailOpen(dt, pos, day, sig) ==
    LET r == ValidateTradeBody(dt, pos, day, sig)
    IN IF r = Raise THEN RTrue ELSE r

\* validate_trade whose handler re-raises, as calculate_position_size does
ValidateTradeReraise(dt, pos, day, sig) ==
    ValidateTradeBody(dt, pos, day, sig)

\* validate_trade: `except Exception: return False`
ValidateTrade(dt, pos, day, sig) ==
    LET r == ValidateTradeBody(dt, pos, day, sig)
    IN IF r = Raise THEN RFalse ELSE r

\* quantize that drops the digits past the fifth (ROUND_DOWN)
RoundDown(n, d) == n \div d

\* Decimal.quantize with the default ROUND_HALF_EVEN, of n / d with d > 0
RoundHalfEven(n, d) ==
    LET q == n \div d
        r == n - q * d
    IN IF 2 * r < d THEN q
       ELSE IF 2 * r > d THEN q + 1
       ELSE IF q % 2 = 0 THEN q ELSE q + 1

\* calculate_position_size on IEEE arithmetic that does not trap: a division
\* by zero gives inf, which min() caps at max_position_size
CalculatePositionSizeInf(sig, account_balance) ==
    IF "stop_loss" \in sig.absent THEN <<Raise, 0>>
    ELSE LET price_diff == Abs(sig.entry_price - sig.stop_loss)
         IN IF sig.entry_price = 0 \/ price_diff = 0
            THEN <<RNone, MAX_POSITION_SIZE * 100000>>
            ELSE LET num == account_balance * StopLossNum * sig.entry_price
                     den == StopLossDen * price_diff
                     capped == IF num > MAX_POSITION_SIZE * den
                               THEN <<MAX_POSITION_SIZE, 1>>
                               ELSE <<num, den>>
                 IN <<RNone, RoundHalfEven(capped[1] * 100000, capped[2])>>

\* calculate_position_size, in units of 0.00001; Raise where the code raises
\* (missing stop_loss, entry_price = 0, stop_loss = entry_price)
CalculatePositionSize(sig, account_balance) ==
    IF "stop_loss" \in sig.absent THEN <<Raise, 0>>
    ELSE LET price_diff == Abs(sig.entry_price - sig.stop_loss)
         IN IF sig.entry_price = 0 \/ price_diff = 0 THEN <<Raise, 0>>
            ELSE LET num == account_balance * StopLossNum * sig.entry_price
                     den == StopLossDen * price_diff
                     capped == IF num > MAX_POSITION_SIZE * den
                               THEN <<MAX_POSITION_SIZE, 1>>
                               ELSE <<num, den>>
                 IN <<RNone, RoundHalfEven(capped[1] * 100000, capped[2])>>

\* `await self._update_position(trade)` in update_risk_metrics: RiskManager
\* defines no _update_position, the attribute lookup raises AttributeError
RMUpdatePosition == Raise

\* the pnl values of the rows of
\* `select(Trade).where(exit_time >= utcnow() - 30 days)`, in table order
RECURSIVE RecentPnlFrom(_, _)
RecentPnlFrom(table, i) ==
    IF i > Len(table) THEN <<>>
    ELSE IF table[i].exit_time = "recent"
         THEN <<table[i].pnl>> \o RecentPnlFrom(table, i + 1)
         ELSE RecentPnlFrom(table, i + 1)

\* the loop of _calculate_risk_metrics over pnls[i..], from the running
\* cumulative_pnl, peak and max_drawdown
RECURSIVE DrawdownFrom(_, _, _, _, _)
DrawdownFrom(pnls, i, cumulative_pnl, peak, max_drawdown) ==
    IF i > Len(pnls) THEN max_drawdown
    ELSE IF pnls[i] = 0
         THEN DrawdownFrom(pnls, i + 1, cumulative_pnl, peak, max_drawdown)
         ELSE LET c == cumulative_pnl + pnls[i]
                  pk == IF peak > c THEN peak ELSE c
                  dd == pk - c
              IN DrawdownFrom(pnls, i + 1, c, pk,
                              IF max_drawdown > dd THEN max_drawdown ELSE dd)

\* the ids of the rows of `select(Trade).where(exit_time >= utcnow() - 30d)`
RecentIds(table) ==
    { i \in 1..Len(table) : table[i].exit_time = "recent" }

RECURSIVE PermsOf(_)
PermsOf(ids) ==
    IF ids = {} THEN {<<>>}
    ELSE UNION { { <<i>> \o p : p \in PermsOf(ids \ {i}) } : i \in ids }

\* what result.scalars().all() of that query can be: the statement has no
\* ORDER BY, so the rows come in an order the database chooses
QueryOrders(table) ==
    { [k \in 1..Len(p) |-> table[p[k]]] : p \in PermsOf(RecentIds(table)) }

\* the "risk_metrics" value _calculate_risk_metrics stores in Redis
RiskSnapshot(table, pos) ==
    [max_drawdown |-> DrawdownFrom(RecentPnlFrom(table, 1), 1, 0, 0, 0),
     current_exposure |-> CurrentExposure(pos),
     active_positions |-> Cardinality(DOMAIN pos)]

\* the positions _load_active_positions adds: one per open filled trade
LoadedPositions(table) ==
    [i \in SeqToSet(OpenFilledIds(table)) |->
        [symbol |-> table[i].symbol, size |-> table[i].quantity,
         price |-> table[i].entry_price, direction |-> table[i].direction]]

\* d1 @@ d2 with d2's entries winning, as dict assignment overwrites
Overwrite(d1, d2) ==
    [k \in DOMAIN d1 \cup DOMAIN d2 |-> IF k \in DOMAIN d2 THEN d2[k] ELSE d1[k]]

\* ==================================================== DataIngestionService
ENABLED_EXCHANGES == <<"binance", "deribit">>
TRADING_PAIRS == <<"BTC-USD", "ETH-USD">>
\* the keys of self.exchange_urls
ExchangeUrls == {"binance", "deribit"}
\* expire=15 of cache_data
CacheTtl == 15

ValidateExchangeConfigsAll(credentials) == ENABLED_EXCHANGES

\* _validate_exchange_configs: binance with both credentials, deribit never
ValidateExchangeConfigs(credentials) ==
    SelectSeq(ENABLED_EXCHANGES,
              LAMBDA exchange : exchange = "binance" /\ credentials)

\* one connect_and_subscribe task for every exchange and pair of the
\* configuration; f"{exchange}_{trading_pair}" is the pair <<exchange, pair>>
StreamKeys ==
    { <<ENABLED_EXCHANGES[i], TRADING_PAIRS[j]>> :
        i \in DOMAIN ENABLED_EXCHANGES, j \in DOMAIN TRADING_PAIRS }

\* the tasks start_data_streams hands to gather
Subscriptions(enabled) ==
    { k \in StreamKeys : \E i \in DOMAIN enabled : enabled[i] = k[1] }

\* A raw message.  form: JSON text or not.  format: whose field names the
\* JSON object uses.  The seven fields are numbered in the order the
\* normalisers read them: symbol, timestamp, open, high, low, close, volume.
\* absent: the fields the object lacks; text: the fields whose value is a
\* string that is no number.
RawMessage(format, pair, absent, text) ==
    [form |-> "json", format |-> format, pair |-> pair, absent |-> absent,
     text |-> text]

NotJson(pair) ==
    [form |-> "not_json", format |-> "-", pair |-> pair, absent |-> {},
     text |-> {}]

\* what arrives on the socket of a pair
MessagesFor(pair) ==
    {NotJson(pair), RawMessage("deribit", pair, {}, {})}
    \cup { RawMessage("binance", pair, a, t) :
             a \in {{}, {1}, {7}}, t \in {{}, {3}} }

\* _generate_mock_data with json.dumps: every Binance field, all numbers
GenerateMockData(trading_pair) == RawMessage("binance", trading_pair, {}, {})

\* the outcome of an expression that gives a dict, gives None or raises:
\* result is "dict", RNone or Raise, value the dict where there is one
Outcome(result, value) == [result |-> result, value |-> value]

\* json.loads(message)
JsonLoads(message) ==
    IF message.form = "not_json" THEN Outcome(Raise, message)
    ELSE Outcome("dict", message)

\* the dict display of a normaliser evaluates its seven values in order: the
\* first absent field raises KeyError, the first value that is no number
\* makes float() or the division raise ValueError or TypeError; the symbol
\* is taken as it is
RECURSIVE ReadFields(_, _)
ReadFields(data, i) ==
    IF i > 7 THEN "ok"
    ELSE IF i \in data.absent THEN "KeyError"
    ELSE IF i > 1 /\ i \in data.text THEN "ValueError"
    ELSE ReadFields(data, i + 1)

\* the dict a normaliser returns: timestamp is a datetime object
Normalized(exchange, data) ==
    [symbol |-> data.pair, exchange |-> exchange, timestamp |-> "datetime"]

\* normalize_binance_data: only KeyError is caught
NormalizeBinanceData(data) ==
    LET read == IF data.format = "binance" THEN ReadFields(data, 1)
                ELSE "KeyError"
    IN IF read = "KeyError" THEN Outcome(RNone, data)
       ELSE IF read = "ValueError" THEN Outcome(Raise, data)
       ELSE Outcome("dict", Normalized("binance", data))

\* normalize_deribit_data: only KeyError is caught
NormalizeDeribitData(data) ==
    LET read == IF data.format = "deribit" THEN ReadFields(data, 1)
                ELSE "KeyError"
    IN IF read = "KeyError" THEN Outcome(RNone, data)
       ELSE IF read = "ValueError" THEN Outcome(Raise, data)
       ELSE Outcome("dict", Normalized("deribit", data))

\* normalize_market_data: None for every other exchange tag
NormalizeMarketData(exchange, data) ==
    IF exchange = "binance" THEN NormalizeBinanceData(data)
    ELSE IF exchange = "deribit" THEN NormalizeDeribitData(data)
    ELSE Outcome(RNone, data)

\* json.dumps(value) without a default: TypeError on a datetime object
JsonDumps(value) == IF value.timestamp = "datetime" THEN Raise ELSE "text"

\* RedisClient.set_data: self.redis.set(key, json.dumps(value), ex=expire);
\* a disconnected client has redis = None and the attribute lookup raises
SetData(redis, value) ==
    IF ~redis \/ JsonDumps(value) = Raise THEN Raise ELSE RNone

\* RedisClient.publish: self.redis.publish(channel, json.dumps(message)),
\* the message holding the normalised dict under "data"
Publish(redis, value) ==
    IF ~redis \/ JsonDumps(value) = Raise THEN Raise ELSE RNone

CacheWrite(exchange, trading_pair) ==
    [sink |-> "cache", exchange |-> exchange, pair |-> trading_pair,
     ttl |-> CacheTtl]

PublishWrite(exchange, trading_pair) ==
    [sink |-> "pubsub", exchange |-> exchange, pair |-> trading_pair,
     ttl |-> 0]

StoreWrite(data) ==
    [sink |-> "storage", exchange |-> data.exchange, pair |-> data.symbol,
     ttl |-> 0]

\* cache_data: set the key, then publish; writes: the writes that were done
CacheData(redis, exchange, trading_pair, data) ==
    IF SetData(redis, data) = Raise THEN [result |-> Raise, writes |-> <<>>]
    ELSE IF Publish(redis, data) = Raise
    THEN [result |-> Raise, writes |-> <<CacheWrite(exchange, trading_pair)>>]
    ELSE [result |-> RNone,
          writes |-> <<CacheWrite(exchange, trading_pair),
                       PublishWrite(exchange, trading_pair)>>]

\* store_market_data: add the row and commit
StoreMarketData(data, db_ok) ==
    IF db_ok THEN [result |-> RNone, writes |-> <<StoreWrite(data)>>]
    ELSE [result |-> Raise, writes |-> <<>>]

\* the try block of process_market_data
ProcessMarketDataBody(redis, exchange, trading_pair, message, db_ok) ==
    LET data == JsonLoads(message)
        normalized_data == NormalizeMarketData(exchange, data.value)
        cached == CacheData(redis, exchange, trading_pair,
                            normalized_data.value)
        kept == StoreMarketData(normalized_data.value, db_ok)
    IN IF data.result = Raise THEN [result |-> Raise, writes |-> <<>>]
       ELSE IF normalized_data.result # "dict"
       THEN [result |-> normalized_data.result, writes |-> <<>>]
       ELSE IF cached.result = Raise THEN cached
       ELSE [result |-> kept.result, writes |-> cached.writes \o kept.writes]

ProcessMarketDataReraise(redis, exchange, trading_pair, message, db_ok) ==
    ProcessMarketDataBody(redis, exchange, trading_pair, message, db_ok)

\* process_market_data: the handler of line 146 logs and swallows
ProcessMarketData(redis, exchange, trading_pair, message, db_ok) ==
    [result |-> RNone,
     writes |-> ProcessMarketDataBody(redis, exchange, trading_pair, message,
                                      db_ok).writes]

\* one pass of the for loop of _start_mock_data_stream over the pairs from
\* the i-th on: the writes of all the calls, Raise when a call raises
RECURSIVE MockPass(_, _, _)
MockPass(redis, i, db_ok) ==
    IF i > Len(TRADING_PAIRS) THEN [result |-> RNone, writes |-> <<>>]
    ELSE LET done == ProcessMarketData(redis, "mock", TRADING_PAIRS[i],
                                       GenerateMockData(TRADING_PAIRS[i]), db_ok)
             rest == MockPass(redis, i + 1, db_ok)
         IN IF done.result = Raise THEN done
            ELSE [result |-> rest.result, writes |-> done.writes \o rest.writes]

\* the records of one sink among a sequence of writes
Written(writes, sink) ==
    { writes[i] : i \in { j \in DOMAIN writes : writes[j].sink = sink } }

\* self.connections as the sequence of its items: the index of a key, 0 when
\* the dict lacks it
ConnIndex(conns, key) ==
    IF \E i \in DOMAIN conns : conns[i].key = key
    THEN CHOOSE i \in DOMAIN conns : conns[i].key = key
    ELSE 0

\* self.connections[key] = websocket, or the state of the socket a key holds
ConnPut(conns, key, ws) ==
    IF ConnIndex(conns, key) = 0 THEN Append(conns, [key |-> key, ws |-> ws])
    ELSE [conns EXCEPT ![ConnIndex(conns, key)].ws = ws]

ConnOpen(conns, key) ==
    ConnIndex(conns, key) # 0 /\ conns[ConnIndex(conns, key)].ws = "open"

\* the socket of a key is closed, where the key holds one
ConnClose(conns, key) ==
    IF ConnIndex(conns, key) = 0 THEN conns ELSE ConnPut(conns, key, "closed")

\* the handler of line 128 of connect_and_subscribe: log, then sleep(5)
StreamErrorHandlerPropagate == "raise"

StreamErrorHandler == "backoff"

\* the test of `while self.running` of line 114, at the start of the task and
\* after the sleep(5) of the handler: connect, or leave the loop
WhileRunningGiveUp(is_running) == "done"

WhileRunning(is_running) == IF is_running THEN "connecting" ELSE "done"

CloseFromLeavesOpen(conns, i) == [pc |-> "returned", i |-> 0, conns |-> conns]

\* the for loop of stop() from the i-th value of the dict on: close() of a
\* closed connection returns at once, close() of an open one closes it and
\* suspends stop(); the loop ends when the dict is exhausted
RECURSIVE CloseFrom(_, _)
CloseFrom(conns, i) ==
    IF i > Len(conns) THEN [pc |-> "returned", i |-> 0, conns |-> conns]
    ELSE IF conns[i].ws = "open"
    THEN [pc |-> "closing", i |-> i, conns |-> [conns EXCEPT ![i].ws = "closed"]]
    ELSE CloseFrom(conns, i + 1)

\* no stop() is in flight and none was called; again: the call in flight or
\* the last one is not the first
StopperIdle == [pc |-> "idle", i |-> 0, size |-> 0, again |-> FALSE]

\* ================================================================== state
VARIABLES
    today,            \* index in Days of the current UTC date
    daily_trades,     \* RiskManager.daily_trades, 0 for a key it lacks
    positions,        \* RiskManager.positions: trade id -> position
    redis_connected,  \* RiskManager.redis_client.redis is not None
    risk_metrics,     \* the "risk_metrics" key in Redis: <<>> or <<snapshot>>
    active_orders,    \* TradeExecutor.active_orders: order id -> order
    db,               \* the trades table, row i has id i
    initialized,      \* TradeExecutor.initialize() has completed
    pc,               \* where manage_open_positions is suspended
    queue,            \* the rest of list(self.active_orders.items())
    polled,           \* order ids polled in the current cycle
    cycle,            \* order ids the current cycle started with
    cancelled,        \* order ids the gateway has reported CANCELLED
    ret,              \* the last call: operation, argument, outcome
    exec_redis,       \* TradeExecutor.redis_client.redis is not None
    http_client,      \* TradeExecutor.http_client: "open" or "closed"
    running,          \* DataIngestionService.running
    enabled_exchanges, \* DataIngestionService.enabled_exchanges
    ingest_redis,     \* DataIngestionService.redis_client.redis is not None
    connections,      \* DataIngestionService.connections, in insertion order
    streams,          \* where start_data_streams is suspended
    task,             \* where each connect_and_subscribe task is suspended
    stopper,          \* where DataIngestionService.stop() is suspended
    cache,            \* the market_data:* keys of Redis, with their TTL
    published,        \* what was published on the market_updates channel
    stored,           \* the rows of the market_data table
    api_risk_manager,   \* risk_manager of api/v1/endpoints/risk.py
    api_trade_executor, \* trade_executor of api/v1/endpoints/trading.py
    api_redis_client    \* redis_client of api/v1/endpoints/market_data.py

vars == <<today, daily_trades, positions, redis_connected, risk_metrics,
          active_orders, db, initialized, pc, queue, polled, cycle,
          cancelled, ret, exec_redis, http_client, running, enabled_exchanges,
          ingest_redis, connections, streams, task, stopper, cache, published,
          stored, api_risk_manager, api_trade_executor, api_redis_client>>

riskVars == <<daily_trades, positions, redis_connected, risk_metrics>>
execVars == <<active_orders, initialized>>
loopVars == <<pc, queue, polled, cycle, cancelled>>
clientVars == <<exec_redis, http_client>>
sinkVars == <<cache, published, stored>>
apiVars == <<api_risk_manager, api_trade_executor, api_redis_client>>
ingestVars == <<running, enabled_exchanges, ingest_redis, connections, streams,
                task, stopper, sinkVars>>

NoArg == [symbol |-> "-"]

\* steps: the steps of execute_trade that were entered
Ret(op, arg, result, steps) ==
    [op |-> op, arg |-> arg, result |-> result, steps |-> steps]

\* RiskManager(): no counter, no position, a Redis client not yet connected
RiskManagerNew ==
    [daily_trades |-> [k \in DailyKeys |-> 0], positions |-> <<>>,
     redis |-> FALSE]

\* TradeExecutor(): no active order, a RiskManager and a Redis client of its own
TradeExecutorNew ==
    [active_orders |-> <<>>, risk_manager |-> RiskManagerNew, redis |-> FALSE]

\* RedisClient(): self.redis is None
RedisClientNew == FALSE

\* the state after the modules are imported: the services of main.py and the
\* module-level objects of the endpoint modules are constructed
Constructed ==
    /\ today = 1
    /\ daily_trades = [k \in DailyKeys |-> 0]
    /\ positions = <<>>
    /\ redis_connected = FALSE
    /\ risk_metrics = <<>>
    /\ active_orders = <<>>
    /\ initialized = FALSE
    /\ pc = "off"
    /\ queue = <<>>
    /\ polled = {}
    /\ cycle = {}
    /\ cancelled = {}
    /\ ret = Ret("init", NoArg, RNone, <<>>)
    /\ exec_redis = FALSE
    /\ http_client = "open"
    /\ running = FALSE
    /\ enabled_exchanges = <<>>
    /\ ingest_redis = FALSE
    /\ connections = <<>>
    /\ streams = "off"
    /\ task = [k \in StreamKeys |-> "none"]
    /\ stopper = StopperIdle
    /\ cache = {}
    /\ published = {}
    /\ stored = {}
    /\ api_risk_manager = RiskManagerNew
    /\ api_trade_executor = TradeExecutorNew
    /\ api_redis_client = RedisClientNew

Init ==
    /\ Constructed
    /\ db \in SeqsUpTo(TradeRows, MaxTrades)

\* the UTC date changes
Tick ==
    /\ today < Len(Days)
    /\ today' = today + 1
    /\ UNCHANGED <<apiVars, ingestVars, clientVars, riskVars, execVars, loopVars, db, ret>>

\* ------------------------------------------------- RiskManager operations
\* RiskManager.initialize(): connect Redis, then load the open positions;
\* a failing query raises out of initialize
RMInitialize ==
    \E db_ok \in BOOLEAN :
        /\ redis_connected' = TRUE
        /\ positions' = IF db_ok THEN Overwrite(positions, LoadedPositions(db))
                        ELSE positions
        /\ ret' = Ret("rm_initialize", NoArg, IF db_ok THEN RNone ELSE Raise, <<>>)
        /\ UNCHANGED <<apiVars, ingestVars, clientVars, today, daily_trades, risk_metrics, execVars, loopVars, db>>

\* RiskManager.validate_trade(signal)
ValidateTradeCall(sig) ==
    /\ ret' = Ret("validate_trade", sig,
                  ValidateTrade(daily_trades, positions, Days[today], sig), <<>>)
    /\ UNCHANGED <<apiVars, ingestVars, clientVars, today, riskVars, execVars, loopVars, db>>

RECURSIVE SumCounts(_, _)
SumCounts(dt, keys) ==
    IF keys = {} THEN 0
    ELSE LET k == CHOOSE x \in keys : TRUE
         IN dt[k] + SumCounts(dt, keys \ {k})

\* a Trade object handed to update_risk_metrics
TradeArgs == [symbol : Symbols, status : {"FILLED", "PENDING"}, kind : {"Trade"}]

\* update_risk_metrics(trade): result and the state it leaves.  An order dict
\* has no attribute `symbol`: AttributeError before anything is changed.
\* table: the rows as the query of _calculate_risk_metrics returns them.
UpdateRiskMetrics(dt, pos, rm, table, day, connected, trade, db_ok, redis_ok) ==
    IF trade.kind = "dict"
    THEN [result |-> Raise, daily_trades |-> dt, risk_metrics |-> rm]
    ELSE LET key == SymbolKey(trade.symbol, day)
             dt2 == [dt EXCEPT ![key] = @ + 1]
         IN IF trade.status = "FILLED" /\ RMUpdatePosition = Raise
            THEN [result |-> Raise, daily_trades |-> dt2, risk_metrics |-> rm]
            ELSE IF ~db_ok \/ ~connected \/ ~redis_ok
            THEN [result |-> Raise, daily_trades |-> dt2, risk_metrics |-> rm]
            ELSE [result |-> RNone, daily_trades |-> dt2,
                  risk_metrics |-> <<RiskSnapshot(table, pos)>>]

\* RiskManager.update_risk_metrics(trade), called with a Trade
UpdateRiskMetricsCall(trade) ==
    /\ SumCounts(daily_trades, DailyKeys) < MaxUpdates
    /\ \E db_ok \in BOOLEAN, redis_ok \in BOOLEAN :
      \E seen \in QueryOrders(db) :
        \E u \in { UpdateRiskMetrics(daily_trades, positions, risk_metrics, seen,
                                     Days[today], redis_connected, trade,
                                     db_ok, redis_ok) } :
           /\ daily_trades' = u.daily_trades
           /\ risk_metrics' = u.risk_metrics
           /\ ret' = Ret("update_risk_metrics", trade, u.result, <<>>)
    /\ UNCHANGED <<apiVars, ingestVars, clientVars, today, positions, redis_connected, execVars, loopVars, db>>

\* the trades tables the RiskManager is exercised on
RiskTables ==
    { <<>>,
      <<TradeRow("BTC-USD", "LONG", "FILLED", 1, 300, "none", 0),
        TradeRow("ETH-USD", "SHORT", "FILLED", 2, 300, "none", 0)>>,
      <<TradeRow("ETH-USD", "LONG", "FILLED", 1, 500, "recent", 100),
        TradeRow("BTC-USD", "LONG", "FILLED", 1, 300, "none", 0)>> }

InitRisk ==
    /\ Constructed
    /\ db \in RiskTables

NextRisk ==
    \/ RMInitialize
    \/ \E sig \in Signals : ValidateTradeCall(sig)
    \/ \E trade \in TradeArgs : UpdateRiskMetricsCall(trade)

\* the RiskManager on its own, its public methods called in any order within
\* one UTC day
SpecRisk == InitRisk /\ [][NextRisk]_vars

\* ========================================================== TradeExecutor
\* the keys of TradeExecutor.exchange_apis
ExchangeApis == {"binance", "deribit"}

\* `await self._get_account_balance(...)`: TradeExecutor defines no such
\* method, the attribute lookup raises AttributeError
GetAccountBalance(balance) == <<Raise, 0>>

\* `await self._update_position(order_id, status)`: not defined either
TEUpdatePosition == Raise

\* `await self._cleanup_order(order_id)`: not defined either
TECleanupOrder == Raise

GatewayOrderIds == {101}
Balances == {10000}

\* what the exchange answers to the order POST
PlaceResponses ==
    [kind : {"accept"}, order_id : GatewayOrderIds, status : {"PENDING", "FILLED"}]
    \cup [kind : {"http_error", "exception"}, order_id : {0}, status : {"-"}]

\* _place_order: <<>> for None, <<order>> for the JSON of a 200 answer.  A
\* signal without "exchange", or with one exchange_apis lacks, raises KeyError
\* inside the method's try: None.
PlaceOrder(sig, size, gw) ==
    IF sig.exchange \notin ExchangeApis THEN <<>>
    ELSE IF gw.kind # "accept" THEN <<>>
    ELSE <<[order_id |-> gw.order_id, symbol |-> sig.symbol, side |-> "LONG",
            price |-> sig.entry_price, quantity |-> size,
            status |-> gw.status, exchange |-> "absent"]>>

\* the row _store_trade adds
StoredRow(order) ==
    TradeRow(order.symbol, order.side, order.status, order.quantity,
             order.price, "none", 0)

\* the test of line 81 without its `not`
RejectedInverted(v) == v = RTrue

\* `if not await self.risk_manager.validate_trade(...)`, line 81
Rejected(v) == v # RTrue

\* execute_trade(signal) on the state (ao, table, dt, pos, rm): the result,
\* the steps entered and the state it leaves
ExecuteTradeOutcome(ao, table, dt, pos, rm, day, connected, sig, balance, gw, db_ok, redis_ok) ==
    LET v == ValidateTrade(dt, pos, day, sig)
        same(result, steps) ==
            [result |-> result, steps |-> steps, validated |-> v,
             active_orders |-> ao, db |-> table,
             daily_trades |-> dt, risk_metrics |-> rm]
        bal == GetAccountBalance(balance)
    IN IF Rejected(v) THEN same(RNone, <<"validate">>)
       ELSE IF bal[1] = Raise \/ sig.exchange = "absent"
       THEN same(RNone, <<"validate", "balance">>)
       ELSE LET size == CalculatePositionSize(sig, bal[2])
            IN IF size[1] = Raise
               THEN same(RNone, <<"validate", "balance", "size">>)
               ELSE LET placed == PlaceOrder(sig, size[2], gw)
                    IN IF placed = <<>>
                       THEN same(RNone, <<"validate", "balance", "size", "place">>)
                       ELSE LET order == placed[1]
                                ao2 == Overwrite(ao, [i \in {order.order_id} |-> order])
                                table2 == Append(table, StoredRow(order))
                                u == UpdateRiskMetrics(dt, pos, rm, table2, day,
                                                       connected,
                                                       [symbol |-> order.symbol,
                                                        status |-> order.status,
                                                        kind |-> "dict"],
                                                       db_ok, redis_ok)
                            IN IF ~db_ok
                               THEN [result |-> RNone, validated |-> v,
                                     steps |-> <<"validate", "balance", "size",
                                                 "place", "register", "store">>,
                                     active_orders |-> ao2, db |-> table,
                                     daily_trades |-> dt, risk_metrics |-> rm]
                               ELSE [result |-> IF u.result = Raise THEN RNone
                                                ELSE ROrder,
                                     validated |-> v,
                                     steps |-> <<"validate", "balance", "size",
                                                 "place", "register", "store",
                                                 "metrics">>,
                                     active_orders |-> ao2, db |-> table2,
                                     daily_trades |-> u.daily_trades,
                                     risk_metrics |-> u.risk_metrics]

\* the collaborators during one execute_trade: the exchange's answer to the
\* order, and whether the database and Redis work
ExecEnvs ==
    [gw : PlaceResponses, db_ok : {TRUE}, redis_ok : {TRUE}]
    \cup [gw : [kind : {"accept"}, order_id : GatewayOrderIds, status : {"PENDING"}],
          db_ok : BOOLEAN, redis_ok : BOOLEAN]

\* the signals handed to execute_trade
ExecSignals ==
    { sig \in Signals :
        \/ sig.symbol = "BTC-USD" /\ sig.entry_price = 100
        \/ sig.exchange # "binance" }

\* TradeExecutor.execute_trade(signal).  env records what validate_trade
\* answered and whether the exchange, the database and Redis were ready to
\* accept.
ExecuteTrade(sig) ==
    \E balance \in Balances, e \in ExecEnvs :
      \E o \in { ExecuteTradeOutcome(active_orders, db, daily_trades, positions,
                                     risk_metrics, Days[today], redis_connected,
                                     sig, balance, e.gw, e.db_ok, e.redis_ok) } :
        /\ active_orders' = o.active_orders
        /\ db' = o.db
        /\ daily_trades' = o.daily_trades
        /\ risk_metrics' = o.risk_metrics
        /\ ret' = [op |-> "execute_trade", arg |-> sig,
                    result |-> o.result, steps |-> o.steps,
                    env |-> [validated |-> o.validated,
                             accepts |-> e.gw.kind = "accept" /\ e.db_ok
                                         /\ e.redis_ok]]
        /\ UNCHANGED <<apiVars, ingestVars, clientVars, today, positions, redis_connected, initialized, loopVars>>

\* the active orders _load_active_trades adds: one per open filled trade
LoadedOrders(table) ==
    [i \in SeqToSet(OpenFilledIds(table)) |->
        [order_id |-> i, symbol |-> table[i].symbol, side |-> table[i].direction,
         price |-> table[i].entry_price, quantity |-> table[i].quantity,
         status |-> table[i].status, exchange |-> "binance"]]

\* TradeExecutor.initialize() at start-up: the RiskManager's initialize(), then
\* _load_active_trades; either query may fail, which raises out of initialize
Initialize ==
    /\ ~initialized
    /\ \E outcome \in {"ok", "positions_query_fails", "orders_query_fails"} :
        /\ exec_redis' = TRUE
        /\ redis_connected' = TRUE
        /\ positions' = IF outcome = "positions_query_fails" THEN positions
                        ELSE Overwrite(positions, LoadedPositions(db))
        /\ active_orders' = IF outcome = "ok"
                            THEN Overwrite(active_orders, LoadedOrders(db))
                            ELSE active_orders
        /\ initialized' = (outcome = "ok")
        /\ ret' = Ret("initialize", NoArg,
                      IF outcome = "ok" THEN RNone ELSE Raise, <<>>)
    /\ UNCHANGED <<apiVars, ingestVars, http_client, today, daily_trades, risk_metrics,
                   loopVars, db>>

\* --------------------------------------------------- manage_open_positions
RECURSIVE Ascending(_)
Ascending(ids) ==
    IF ids = {} THEN <<>>
    ELSE LET m == CHOOSE x \in ids : \A y \in ids : x <= y
         IN <<m>> \o Ascending(ids \ {m})

\* list(self.active_orders.items()): the ids in insertion order, which is the
\* order of the ids (rows are loaded in id order, exchange ids come later)
OrderList(ao) == Ascending(DOMAIN ao)

\* what the exchange answers to a status GET
StatusResponses ==
    {"FILLED", "CANCELLED", "NEW", "http_error", "unreachable", "no_status"}

\* _check_order_status joined with the status["status"] lookup of line 118:
\* "UNKNOWN" where the method falls back, "KeyError" where a 200 answer that
\* carries no "status" makes the lookup raise
CheckOrderStatus(order, resp) ==
    IF order.exchange \notin ExchangeApis THEN "UNKNOWN"
    ELSE IF resp \in {"http_error", "unreachable"} THEN "UNKNOWN"
    ELSE IF resp = "no_status" THEN "KeyError"
    ELSE resp

\* the body of the for loop raises into the handler of line 128
PollRaises(status) ==
    \/ status = "KeyError"
    \/ status = "FILLED" /\ TEUpdatePosition = Raise
    \/ status = "CANCELLED" /\ TECleanupOrder = Raise

\* the top of the while loop: snapshot the active orders; with none to poll
\* the loop is at once at its sleep(1)
BeginCycle ==
    /\ queue' = OrderList(active_orders)
    /\ cycle' = DOMAIN active_orders
    /\ polled' = {}
    /\ pc' = IF DOMAIN active_orders = {} THEN "sleep1" ELSE "poll"

\* asyncio.create_task(trade_executor.manage_open_positions()) at start-up
StartManage ==
    /\ initialized
    /\ pc = "off"
    /\ BeginCycle
    /\ UNCHANGED <<apiVars, ingestVars, clientVars, today, riskVars, execVars, db, cancelled, ret>>

\* sleep(1) or sleep(5) is over: the next cycle
Wake ==
    /\ pc \in {"sleep1", "sleep5"}
    /\ BeginCycle
    /\ UNCHANGED <<apiVars, ingestVars, clientVars, today, riskVars, execVars, db, cancelled, ret>>

\* the status answer for the order at the head of the list arrives; the
\* handler runs to the next await: the next order's request or a sleep
PollOrder ==
    /\ pc = "poll"
    /\ queue # <<>>
    /\ \E resp \in StatusResponses :
        LET order_id == Head(queue)
            status == CheckOrderStatus(active_orders[order_id], resp)
        IN /\ polled' = polled \cup {order_id}
           /\ cancelled' = IF resp = "CANCELLED" THEN cancelled \cup {order_id}
                           ELSE cancelled
           /\ queue' = IF PollRaises(status) THEN <<>> ELSE Tail(queue)
           /\ pc' = IF PollRaises(status) THEN "sleep5"
                    ELSE IF Tail(queue) = <<>> THEN "sleep1" ELSE "poll"
           /\ ret' = Ret("poll", [symbol |-> "-", order_id |-> order_id],
                         status, <<>>)
    /\ UNCHANGED <<apiVars, ingestVars, clientVars, today, riskVars, execVars, db, cycle>>

Next ==
    \/ Tick
    \/ Initialize
    \/ \E sig \in ExecSignals : ExecuteTrade(sig)
    \/ StartManage
    \/ Wake
    \/ PollOrder

\* one TradeExecutor with its RiskManager: start-up, trade signals and the
\* reconciliation loop
Spec == Init /\ [][Next]_vars

\* ------------------------------------------------------ update_trade_status
\* the direction attribute of a Trade the session loaded: an
\* Enum(TradeDirection) column comes back as the enum member, not as a string
LoadedDirection(name) ==
    IF name = "LONG" THEN "TradeDirection.LONG" ELSE "TradeDirection.SHORT"

\* _calculate_pnl on numbers: `trade.direction == "LONG"` holds for the string
\* only, a TradeDirection member is no str and compares unequal
CalculatePnl(direction, entry_price, quantity, exit_price) ==
    LET entry_value == entry_price * quantity
        exit_value == exit_price * quantity
    IN IF direction = "LONG" THEN exit_value - entry_value
       ELSE entry_value - exit_value

\* a session whose query(Trade).filter(...).first() answers
DbQueryWorks == RNone

\* `await db.query(Trade)`, line 136: get_db yields an AsyncSession, which has
\* no attribute query: AttributeError
DbQuery == Raise

\* the status dicts handed to update_trade_status
StatusUpdates == [status : {"FILLED", "CANCELLED", "PENDING"}, price : {110}]

\* lines 137-142: the row of trade_id with the status written to it; a
\* FILLED status closes it.  No row of that id: nothing is written.
StatusWritten(table, trade_id, status) ==
    IF trade_id \notin 1..Len(table) THEN table
    ELSE LET row == table[trade_id]
         IN [table EXCEPT ![trade_id] =
                IF status.status = "FILLED"
                THEN [row EXCEPT
                        !.status = "FILLED",
                        !.exit_time = "recent",
                        !.pnl = CalculatePnl(LoadedDirection(row.direction),
                                             row.entry_price, row.quantity,
                                             status.price)]
                ELSE [row EXCEPT !.status = status.status]]

\* update_trade_status(trade_id, status) on the state (table, dt, rm): the
\* result and the state it leaves.  The commit of line 144 precedes
\* update_risk_metrics, so the row stays changed when that call raises.
\* seen: the rows as the query of _calculate_risk_metrics returns them.
UpdateTradeStatus(table, dt, pos, rm, day, connected, trade_id, status, seen, db_ok, redis_ok) ==
    LET same(result) ==
            [result |-> result, db |-> table, daily_trades |-> dt,
             risk_metrics |-> rm]
    IN IF DbQuery = Raise \/ ~db_ok THEN same(Raise)
       ELSE IF trade_id \notin 1..Len(table) THEN same(RNone)
       ELSE LET table2 == StatusWritten(table, trade_id, status)
                u == UpdateRiskMetrics(dt, pos, rm, seen, day, connected,
                                       [symbol |-> table2[trade_id].symbol,
                                        status |-> table2[trade_id].status,
                                        kind |-> "Trade"],
                                       db_ok, redis_ok)
            IN [result |-> u.result, db |-> table2,
                daily_trades |-> u.daily_trades,
                risk_metrics |-> u.risk_metrics]

\* TradeExecutor.update_trade_status(trade_id, status)
UpdateTradeStatusCall(trade_id, status) ==
    /\ SumCounts(daily_trades, DailyKeys) < MaxUpdates
    /\ \E db_ok \in BOOLEAN, redis_ok \in BOOLEAN :
      \E seen \in QueryOrders(StatusWritten(db, trade_id, status)) :
        \E o \in { UpdateTradeStatus(db, daily_trades, positions, risk_metrics,
                                     Days[today], redis_connected, trade_id,
                                     status, seen, db_ok, redis_ok) } :
           /\ db' = o.db
           /\ daily_trades' = o.daily_trades
           /\ risk_metrics' = o.risk_metrics
           /\ ret' = [op |-> "update_trade_status",
                      arg |-> [symbol |-> "-", trade_id |-> trade_id,
                               status |-> status.status],
                      result |-> o.result, steps |-> <<>>]
    /\ UNCHANGED <<apiVars, ingestVars, clientVars, today, positions, redis_connected, execVars, loopVars>>

\* ------------------------------------------------------------- restart
\* the process ends and a new one starts: the services are constructed anew
\* and startup_event runs the TradeExecutor's initialize().  The trades table
\* and the Redis key outlive the process.  before: the order ids the old
\* process tracked.
Restart ==
    \E outcome \in {"ok", "positions_query_fails", "orders_query_fails"} :
        /\ daily_trades' = [k \in DailyKeys |-> 0]
        /\ exec_redis' = TRUE
        /\ http_client' = "open"
        /\ redis_connected' = TRUE
        /\ positions' = IF outcome = "positions_query_fails" THEN <<>>
                        ELSE LoadedPositions(db)
        /\ active_orders' = IF outcome = "ok" THEN LoadedOrders(db) ELSE <<>>
        /\ initialized' = (outcome = "ok")
        /\ pc' = "off"
        /\ queue' = <<>>
        /\ polled' = {}
        /\ cycle' = {}
        /\ ret' = [op |-> "restart", arg |-> NoArg,
                   result |-> IF outcome = "ok" THEN RNone ELSE Raise,
                   steps |-> <<>>, before |-> DOMAIN active_orders]
        /\ running' = FALSE
        /\ enabled_exchanges' = <<>>
        /\ ingest_redis' = FALSE
        /\ connections' = <<>>
        /\ streams' = "off"
        /\ task' = [k \in StreamKeys |-> "none"]
        /\ stopper' = StopperIdle
        /\ api_risk_manager' = RiskManagerNew
        /\ api_trade_executor' = TradeExecutorNew
        /\ api_redis_client' = RedisClientNew
        /\ UNCHANGED <<sinkVars, today, risk_metrics, db, cancelled>>

\* signals that carry the side and the take-profit level as well
SidedSignal(action, stop, take_profit) ==
    [symbol |-> "BTC-USD", action |-> action, entry_price |-> 100,
     stop_loss |-> stop, take_profit |-> take_profit, position_size |-> 1,
     absent |-> {}, exchange |-> "binance"]

SidedSignals ==
    { SidedSignal(a, sl, tp) :
        a \in {"BUY", "SELL"}, sl \in {98, 102}, tp \in {96, 104} }

\* the trades tables the order life cycle is exercised on: open, pending,
\* closed, cancelled and rejected rows
OrderTables ==
    { <<TradeRow("BTC-USD", "LONG", "FILLED", 1, 300, "none", 0),
        TradeRow("ETH-USD", "SHORT", "PENDING", 2, 100, "none", 0),
        TradeRow("BTC-USD", "LONG", "FILLED", 1, 500, "recent", 100)>>,
      <<TradeRow("ETH-USD", "LONG", "CANCELLED", 1, 300, "none", 0),
        TradeRow("BTC-USD", "SHORT", "FILLED", 2, 200, "none", 0),
        TradeRow("BTC-USD", "LONG", "REJECTED", 1, 300, "none", 0)>> }

InitOrders ==
    /\ Constructed
    /\ db \in OrderTables

NextOrders ==
    \/ Initialize
    \/ RMInitialize
    \/ Restart
    \/ \E sig \in SidedSignals : ValidateTradeCall(sig)
    \/ \E sig \in SidedSignals : ExecuteTrade(sig)
    \/ StartManage
    \/ Wake
    \/ PollOrder
    \/ \E trade_id \in 1..3, status \in StatusUpdates :
          UpdateTradeStatusCall(trade_id, status)

\* the life of the orders: start-up, restarts, trade signals, the
\* reconciliation loop and status updates, within one UTC day
SpecOrders == InitOrders /\ [][NextOrders]_vars

\* ------------------------------------------- the RiskManager's queries
\* `await self._check_daily_trades_limit()`: RiskManager defines no such
\* method, the attribute lookup raises AttributeError
CheckDailyTradesLimit == Raise

\* `await self._check_exposure_limit()`: not defined either
CheckExposureLimit == Raise

\* check_risk_limits: the dict display evaluates its three values in order,
\* outside any try
CheckRiskLimits ==
    IF CheckDailyTradesLimit = Raise THEN Raise
    ELSE IF CheckDrawdownLimit = Raise THEN Raise
    ELSE IF CheckExposureLimit = Raise THEN Raise
    ELSE "Dict"

\* RiskManager.check_risk_limits()
CheckRiskLimitsCall ==
    /\ ret' = Ret("check_risk_limits", NoArg, CheckRiskLimits, <<>>)
    /\ UNCHANGED <<apiVars, ingestVars, clientVars, today, riskVars, execVars, loopVars, db>>

\* the (entry_price, stop_loss, account_balance) calculate_position_size is
\* called with: those whose size, in units of 0.00001, fits a machine integer
SizeInputs ==
    { in \in { [entry |-> pr[1], stop |-> pr[2], balance |-> b] :
                 pr \in { <<0, 0>>, <<0, 98>>, <<100, 97>>, <<100, 98>>,
                          <<100, 100>>, <<100, 103>>, <<50000, 49000>>,
                          <<50000, 49500>>, <<50000, 50000>> },
                 b \in {0, 1, 10, 100, 10000} } :
        LET num == in.balance * StopLossNum * in.entry
            den == StopLossDen * Abs(in.entry - in.stop)
        IN \/ in.entry = 0
           \/ in.stop = in.entry
           \/ num > MAX_POSITION_SIZE * den
           \/ num <= 20000 }

\* RiskManager.calculate_position_size(signal, account_balance)
CalculatePositionSizeCall(in) ==
    \E r \in { CalculatePositionSize(
                   Signal("BTC-USD", in.entry, in.stop, 1, {}, "binance"),
                   in.balance) } :
        /\ ret' = [op |-> "calculate_position_size",
                   arg |-> [symbol |-> "BTC-USD", entry_price |-> in.entry,
                            stop_loss |-> in.stop, balance |-> in.balance],
                   result |-> r[1], steps |-> <<>>, size |-> r[2]]
        /\ UNCHANGED <<apiVars, ingestVars, clientVars, today, riskVars, execVars, loopVars, db>>

\* the direction of the Trade handed to _calculate_pnl: the string a Trade was
\* constructed with, or the enum member the session loaded.  Quantities and the
\* pnl are in units of 0.1.
PnlInputs ==
    [direction : {"LONG", "SHORT", "TradeDirection.LONG", "TradeDirection.SHORT"},
     entry_price : {50000, 300}, quantity : {1, 2}, exit_price : {51000, 110}]

\* TradeExecutor._calculate_pnl(trade, exit_price)
CalculatePnlCall(in) ==
    /\ ret' = [op |-> "calculate_pnl", arg |-> in, result |-> RNone,
               steps |-> <<>>,
               pnl |-> CalculatePnl(in.direction, in.entry_price, in.quantity,
                                    in.exit_price)]
    /\ UNCHANGED <<apiVars, ingestVars, clientVars, today, riskVars, execVars, loopVars, db>>

NextQueries ==
    \/ RMInitialize
    \/ CheckRiskLimitsCall
    \/ \E in \in SizeInputs : CalculatePositionSizeCall(in)
    \/ \E in \in PnlInputs : CalculatePnlCall(in)

\* the computations that read the state and change none of it, called in any
\* state the RiskManager is in after construction or initialize()
SpecQueries == InitRisk /\ [][NextQueries]_vars

\* ---------------------------------------------------------- the drawdown
\* trades tables of closed trades, listed in the order they were closed in
DrawdownTables ==
    { <<TradeRow("BTC-USD", "LONG", "FILLED", 1, 300, "recent", 100),
        TradeRow("BTC-USD", "LONG", "FILLED", 1, 300, "recent", -30),
        TradeRow("ETH-USD", "LONG", "FILLED", 1, 300, "recent", 10),
        TradeRow("BTC-USD", "SHORT", "FILLED", 1, 300, "recent", -200),
        TradeRow("ETH-USD", "LONG", "FILLED", 1, 300, "recent", 50)>>,
      <<TradeRow("BTC-USD", "LONG", "FILLED", 1, 300, "old", 500),
        TradeRow("BTC-USD", "LONG", "FILLED", 1, 300, "recent", -200),
        TradeRow("ETH-USD", "LONG", "FILLED", 1, 300, "none", 0),
        TradeRow("ETH-USD", "LONG", "FILLED", 1, 300, "recent", 100),
        TradeRow("BTC-USD", "LONG", "FILLED", 1, 300, "recent", -30)>>,
      <<TradeRow("BTC-USD", "LONG", "FILLED", 1, 300, "recent", 40)>> }

InitDrawdown ==
    /\ Constructed
    /\ db \in DrawdownTables

NextDrawdown ==
    \/ RMInitialize
    \/ \E symbol \in Symbols :
          UpdateRiskMetricsCall([symbol |-> symbol, status |-> "PENDING",
                                 kind |-> "Trade"])

\* the risk snapshot over a history of closed trades
SpecDrawdown == InitDrawdown /\ [][NextDrawdown]_vars

\* ================================================= the market data streams
\* everything outside the DataIngestionService, but the last call
coreVars == <<today, riskVars, execVars, loopVars, db, clientVars, apiVars>>

\* the writes of one or more process_market_data calls reach their sinks
ApplyWrites(writes) ==
    /\ cache' = cache \cup Written(writes, "cache")
    /\ published' = published \cup Written(writes, "pubsub")
    /\ stored' = stored \cup Written(writes, "storage")

\* DataIngestionService.initialize() at start-up
IngestInitialize ==
    /\ streams = "off"
    /\ stopper.pc = "idle"
    /\ ~ingest_redis
    /\ \E credentials \in BOOLEAN :
        /\ enabled_exchanges' = ValidateExchangeConfigs(credentials)
        /\ ret' = Ret("ingest_initialize",
                      [symbol |-> "-", credentials |-> credentials], RNone, <<>>)
    /\ ingest_redis' = TRUE
    /\ running' = FALSE
    /\ UNCHANGED <<coreVars, connections, streams, task, stopper, sinkVars>>

\* one pass of the mock generator, up to its sleep
MockStep ==
    \E db_ok \in BOOLEAN :
        LET pass == MockPass(ingest_redis, 1, db_ok)
        IN /\ ApplyWrites(pass.writes)
           /\ streams' = IF pass.result = Raise THEN "mock_sleep5"
                         ELSE "mock_sleep1"
           /\ ret' = Ret("mock_pass",
                         [symbol |-> "-", exchange |-> "mock",
                          redis |-> ingest_redis, db_ok |-> db_ok],
                         pass.result, pass.writes)

\* asyncio.create_task(data_service.start_data_streams()) at start-up, run to
\* its first await: the sleep of the mock generator, or gather over the tasks
StartDataStreams ==
    /\ streams = "off"
    /\ stopper.pc = "idle"
    /\ ingest_redis
    /\ running' = TRUE
    /\ IF enabled_exchanges = <<>>
       THEN MockStep /\ UNCHANGED task
       ELSE /\ task' = [k \in StreamKeys |->
                          IF k \in Subscriptions(enabled_exchanges) THEN "ready"
                          ELSE "none"]
            /\ streams' = "gather"
            /\ ret' = Ret("start_data_streams", NoArg, "gather", <<>>)
            /\ UNCHANGED sinkVars
    /\ UNCHANGED <<coreVars, enabled_exchanges, ingest_redis, connections, stopper>>

\* the sleep of the mock generator is over: the test of `while self.running`
MockWake ==
    /\ streams \in {"mock_sleep1", "mock_sleep5"}
    /\ IF running THEN MockStep
       ELSE streams' = "returned" /\ UNCHANGED <<sinkVars, ret>>
    /\ UNCHANGED <<coreVars, running, enabled_exchanges, ingest_redis,
                   connections, task, stopper>>

\* an exception inside the try of connect_and_subscribe, the task's socket
\* left as conns has it: the handler, or else the exception leaves the task,
\* gather raises and the handler of line 82 clears the flag
TaskFails(t, conns) ==
    /\ connections' = conns
    /\ IF StreamErrorHandler = "backoff"
       THEN /\ task' = [task EXCEPT ![t] = "backoff"]
            /\ UNCHANGED <<running, streams>>
       ELSE /\ task' = [task EXCEPT ![t] = "failed"]
            /\ running' = FALSE
            /\ streams' = "raised"

\* the test of the inner `while self.running`: receive, or leave the
\* `async with`, which closes the socket, and then the outer loop
StreamContinues(t) ==
    /\ IF running
       THEN task' = [task EXCEPT ![t] = "receiving"] /\ UNCHANGED connections
       ELSE /\ task' = [task EXCEPT ![t] = "done"]
            /\ connections' = ConnClose(connections, t)
    /\ UNCHANGED <<running, streams>>

\* a task gather created runs for the first time
TaskStart(t) ==
    /\ task[t] = "ready"
    /\ task' = [task EXCEPT ![t] = WhileRunning(running)]
    /\ UNCHANGED <<coreVars, ret, running, enabled_exchanges, ingest_redis,
                   connections, streams, stopper, sinkVars>>

\* websockets.connect answers: the socket is registered under the task's key
\* and the subscription is sent, or the attempt raises
Connect(t) ==
    /\ task[t] = "connecting"
    /\ \E opened \in BOOLEAN :
        IF opened /\ t[1] \in ExchangeUrls
        THEN /\ connections' = ConnPut(connections, t, "open")
             /\ task' = [task EXCEPT ![t] = "subscribing"]
             /\ UNCHANGED <<running, streams>>
        ELSE TaskFails(t, connections)
    /\ UNCHANGED <<coreVars, ret, enabled_exchanges, ingest_redis, stopper,
                   sinkVars>>

\* websocket.send is over: it raises on a socket that was closed or is lost
Subscribe(t) ==
    /\ task[t] = "subscribing"
    /\ \E sent \in BOOLEAN :
        IF sent /\ ConnOpen(connections, t) THEN StreamContinues(t)
        ELSE TaskFails(t, ConnClose(connections, t))
    /\ UNCHANGED <<coreVars, ret, enabled_exchanges, ingest_redis, stopper,
                   sinkVars>>

\* websocket.recv is over: it raises on a socket that was closed or is lost,
\* else the message is processed and the inner loop goes on
Receive(t) ==
    /\ task[t] = "receiving"
    /\ \/ /\ TaskFails(t, ConnClose(connections, t))
          /\ UNCHANGED <<ret, sinkVars>>
       \/ /\ ConnOpen(connections, t)
          /\ \E message \in MessagesFor(t[2]), db_ok \in BOOLEAN :
              \E done \in { ProcessMarketData(ingest_redis, t[1], t[2],
                                              message, db_ok) } :
                /\ ApplyWrites(done.writes)
                /\ ret' = Ret("process_market_data",
                              [symbol |-> t[2], exchange |-> t[1],
                               message |-> message, redis |-> ingest_redis,
                               db_ok |-> db_ok],
                              done.result, done.writes)
                /\ IF done.result = Raise
                   THEN TaskFails(t, ConnClose(connections, t))
                   ELSE StreamContinues(t)
    /\ UNCHANGED <<coreVars, enabled_exchanges, ingest_redis, stopper>>

\* the sleep(5) of the handler is over
BackoffOver(t) ==
    /\ task[t] = "backoff"
    /\ task' = [task EXCEPT ![t] = WhileRunning(running)]
    /\ UNCHANGED <<coreVars, ret, running, enabled_exchanges, ingest_redis,
                   connections, streams, stopper, sinkVars>>

\* every task has returned: gather and start_data_streams return
GatherDone ==
    /\ streams = "gather"
    /\ \A k \in Subscriptions(enabled_exchanges) : task[k] = "done"
    /\ streams' = "returned"
    /\ UNCHANGED <<coreVars, ret, running, enabled_exchanges, ingest_redis,
                   connections, task, stopper, sinkVars>>

\* stop() from the i-th value of the dict on, up to its next await or its end;
\* RedisClient.disconnect closes the client where there is one
StopFrom(i, again) ==
    \E c \in { CloseFrom(connections, i) } :
        /\ connections' = c.conns
        /\ stopper' = [pc |-> c.pc, i |-> c.i, size |-> Len(connections),
                       again |-> again]
        /\ ingest_redis' = IF c.pc = "returned" THEN FALSE ELSE ingest_redis
        /\ ret' = Ret("ingest_stop", NoArg,
                      IF c.pc = "returned" THEN RNone ELSE "closing", <<>>)

\* DataIngestionService.stop() is called
IngestStop ==
    /\ stopper.pc # "closing"
    /\ running' = FALSE
    /\ StopFrom(1, stopper.pc # "idle")
    /\ UNCHANGED <<coreVars, enabled_exchanges, streams, task, sinkVars>>

\* close() of a connection is over and the for loop of stop() asks the dict
\* for its next value: RuntimeError where the dict changed size meanwhile
IngestStopResume ==
    /\ stopper.pc = "closing"
    /\ IF Len(connections) # stopper.size
       THEN /\ stopper' = [stopper EXCEPT !.pc = "raised"]
            /\ ret' = Ret("ingest_stop", NoArg, Raise, <<>>)
            /\ UNCHANGED <<connections, ingest_redis>>
       ELSE StopFrom(stopper.i + 1, stopper.again)
    /\ UNCHANGED <<coreVars, running, enabled_exchanges, streams, task,
                   sinkVars>>

\* TradeExecutor.stop(): its Redis client, the RiskManager's, the HTTP client
ExecStop ==
    /\ exec_redis' = FALSE
    /\ redis_connected' = FALSE
    /\ http_client' = "closed"
    /\ ret' = Ret("exec_stop", NoArg, RNone, <<>>)
    /\ UNCHANGED <<apiVars, ingestVars, today, daily_trades, positions, risk_metrics,
                   execVars, loopVars, db>>

\* the steps of a task the event loop brings about by itself: a created
\* task is run, a connection attempt succeeds or fails, a send and a sleep
\* end, a recv on a closed socket raises; a recv on an open socket waits for
\* the exchange
TaskWakes(t) ==
    \/ TaskStart(t)
    \/ Connect(t)
    \/ Subscribe(t)
    \/ BackoffOver(t)
    \/ ~ConnOpen(connections, t) /\ Receive(t)

NextStreams ==
    \/ IngestInitialize
    \/ StartDataStreams
    \/ MockWake
    \/ \E t \in StreamKeys : TaskStart(t)
    \/ \E t \in StreamKeys : Connect(t)
    \/ \E t \in StreamKeys : Subscribe(t)
    \/ \E t \in StreamKeys : Receive(t)
    \/ \E t \in StreamKeys : BackoffOver(t)
    \/ GatherDone
    \/ IngestStop
    \/ IngestStopResume

InitStreams ==
    /\ Constructed
    /\ db = <<>>

\* the DataIngestionService from start-up to shutdown
SpecStreams == InitStreams /\ [][NextStreams]_vars

\* the event loop runs every task that can run: a pending connect, send,
\* recv, sleep or close ends
FairStreams ==
    /\ \A t \in StreamKeys : WF_vars(TaskWakes(t))
    /\ WF_vars(MockWake)
    /\ WF_vars(GatherDone)
    /\ WF_vars(IngestStopResume)

SpecStreamsFair == SpecStreams /\ FairStreams

\* ------------------------------------------------------------ the service
\* one open order to reconcile
AppTable == <<TradeRow("BTC-USD", "LONG", "FILLED", 1, 300, "none", 0)>>

InitApp ==
    /\ Constructed
    /\ db = AppTable

NextApp ==
    \/ IngestInitialize
    \/ Initialize
    \/ StartDataStreams
    \/ StartManage
    \/ MockWake
    \/ \E t \in StreamKeys : TaskStart(t)
    \/ \E t \in StreamKeys : Connect(t)
    \/ \E t \in StreamKeys : Subscribe(t)
    \/ \E t \in StreamKeys : Receive(t)
    \/ \E t \in StreamKeys : BackoffOver(t)
    \/ GatherDone
    \/ Wake
    \/ PollOrder
    \/ IngestStop
    \/ IngestStopResume
    \/ ExecStop

\* the service of main.py: start-up, the market data streams beside the
\* reconciliation loop, shutdown
SpecApp == InitApp /\ [][NextApp]_vars

\* ------------------------------------------------- the reconciliation loop
\* two open orders to reconcile
LoopTable ==
    <<TradeRow("BTC-USD", "LONG", "FILLED", 1, 300, "none", 0),
      TradeRow("ETH-USD", "SHORT", "FILLED", 2, 100, "none", 0)>>

InitLoop ==
    /\ Constructed
    /\ db = LoopTable

NextLoop ==
    \/ Initialize
    \/ StartManage
    \/ Wake
    \/ PollOrder
    \/ ExecStop

\* the TradeExecutor from start-up to shutdown, with its reconciliation loop
SpecLoop == InitLoop /\ [][NextLoop]_vars

\* the event loop runs the reconciliation task: a sleep ends, a status
\* request is answered or fails
FairLoop ==
    /\ WF_vars(StartManage)
    /\ WF_vars(Wake)
    /\ WF_vars(PollOrder)

SpecLoopFair == SpecLoop /\ FairLoop

\* ============================================================ the HTTP API
\* what the body of an endpoint does: it returns a value, raises
\* HTTPException(status_code) or raises another exception
Returned(value) == [kind |-> "return", status |-> 200, value |-> value]
HTTPException(status_code) ==
    [kind |-> "HTTPException", status |-> status_code, value |-> "-"]
Raised == [kind |-> "Exception", status |-> 500, value |-> "-"]

\* `except Exception as e: raise HTTPException(status_code=500, ...)` around
\* the body: HTTPException is an Exception, the handler catches it as well
ExceptException(outcome) ==
    IF outcome.kind = "return" THEN outcome ELSE HTTPException(500)

\* TradeSignal(...).dict(): symbol, entry_price and stop_loss are required,
\* position_size is optional (None), the schema has no exchange field
ApiSignals ==
    { Signal(s, e, sl, p, ab, "absent") :
        s \in Symbols, e \in {100, 0}, sl \in {98, 97}, p \in {1, 11},
        ab \in {{}, {"position_size"}} }

\* POST /trading/execute: the result of execute_trade if it is truthy, else
\* HTTPException(400), raised inside the try
ExecuteTradeEndpoint(result) ==
    ExceptException(IF result = Raise THEN Raised
                    ELSE IF result = RNone THEN HTTPException(400)
                    ELSE Returned(result))

\* POST /risk/validate-trade: {"is_valid": ...}
ValidateTradeEndpoint(is_valid) ==
    ExceptException(IF is_valid = Raise THEN Raised ELSE Returned(is_valid))

\* RedisClient.get_data(key): the attribute lookup on self.redis raises while
\* it is None; else the value under the key, None where there is none
GetData(redis, keys, exchange, trading_pair) ==
    IF ~redis THEN Raise
    ELSE IF CacheWrite(exchange, trading_pair) \in keys
    THEN CacheWrite(exchange, trading_pair)
    ELSE RNone

\* the newest row of the market_data table for an exchange and pair
NewestStored(rows, exchange, trading_pair) ==
    IF StoreWrite([exchange |-> exchange, symbol |-> trading_pair]) \in rows
    THEN "row" ELSE RNone

\* response_model=MarketDataResponse: id and created_at are required, which a
\* row has and the cached dict lacks
ResponseModel(value) == IF value = "row" THEN Returned(value) ELSE Raised

\* GET /market-data/latest/{exchange}/{trading_pair}: no try around the body
GetLatestMarketData(redis, keys, rows, exchange, trading_pair) ==
    LET cached_data == GetData(redis, keys, exchange, trading_pair)
        query == IF DbQuery = Raise THEN Raise
                 ELSE NewestStored(rows, exchange, trading_pair)
    IN IF cached_data = Raise THEN Raised
       ELSE IF cached_data # RNone THEN ResponseModel(cached_data)
       ELSE IF query = Raise THEN Raised
       ELSE IF query = RNone THEN HTTPException(404)
       ELSE ResponseModel(query)

\* a request to POST /risk/validate-trade: the RiskManager of risk.py
ApiValidateTrade(sig) ==
    /\ \E is_valid \in { ValidateTrade(api_risk_manager.daily_trades,
                                       api_risk_manager.positions,
                                       Days[today], sig) } :
        ret' = [op |-> "api_validate_trade", arg |-> sig, result |-> is_valid,
                steps |-> <<>>, answer |-> ValidateTradeEndpoint(is_valid),
                consulted |-> api_risk_manager]
    /\ UNCHANGED <<coreVars, ingestVars>>

\* a request to POST /trading/execute: the TradeExecutor of trading.py
ApiExecuteTrade(sig) ==
    /\ \E balance \in Balances, e \in ExecEnvs :
        \E o \in { ExecuteTradeOutcome(api_trade_executor.active_orders, db,
                       api_trade_executor.risk_manager.daily_trades,
                       api_trade_executor.risk_manager.positions,
                       risk_metrics, Days[today],
                       api_trade_executor.risk_manager.redis,
                       sig, balance, e.gw, e.db_ok, e.redis_ok) } :
          /\ api_trade_executor' =
               [api_trade_executor EXCEPT
                   !.active_orders = o.active_orders,
                   !.risk_manager.daily_trades = o.daily_trades]
          /\ db' = o.db
          /\ risk_metrics' = o.risk_metrics
          /\ ret' = [op |-> "api_execute_trade", arg |-> sig,
                     result |-> o.result, steps |-> o.steps,
                     answer |-> ExecuteTradeEndpoint(o.result),
                     consulted |-> api_trade_executor.risk_manager]
    /\ UNCHANGED <<ingestVars, today, daily_trades, positions, redis_connected,
                   execVars, loopVars, clientVars, api_risk_manager,
                   api_redis_client>>

\* a request to GET /market-data/latest/{exchange}/{trading_pair}
ApiGetLatestMarketData(exchange, trading_pair) ==
    /\ ret' = [op |-> "api_latest_market_data",
               arg |-> [symbol |-> trading_pair, exchange |-> exchange],
               result |-> "-", steps |-> <<>>,
               answer |-> GetLatestMarketData(api_redis_client, cache, stored,
                                              exchange, trading_pair)]
    /\ UNCHANGED <<coreVars, ingestVars>>

\* the service of main.py with its trading and risk endpoints: start-up of
\* the TradeExecutor, signals through the API and to the executor itself
NextApi ==
    \/ Tick
    \/ Initialize
    \/ \E sig \in ApiSignals : ApiValidateTrade(sig)
    \/ \E sig \in ApiSignals : ApiExecuteTrade(sig)
    \/ \E sig \in ApiSignals : ExecuteTrade(sig)

SpecApi == InitApp /\ [][NextApi]_vars

\* the market data streams with the market data endpoint
NextMarketData ==
    \/ IngestInitialize
    \/ StartDataStreams
    \/ MockWake
    \/ \E t \in StreamKeys : TaskStart(t)
    \/ \E t \in StreamKeys : Connect(t)
    \/ \E t \in StreamKeys : Subscribe(t)
    \/ \E t \in StreamKeys : Receive(t)
    \/ \E t \in StreamKeys : BackoffOver(t)
    \/ GatherDone
    \/ IngestStop
    \/ IngestStopResume
    \/ \E t \in StreamKeys : ApiGetLatestMarketData(t[1], t[2])

SpecMarketData == InitStreams /\ [][NextMarketData]_vars

\* ================================================================= claims
\* the documented checks of validateTrade, stated on the signal and the state
\* it is validated in
FieldsPresent(sig) ==
    sig.absent \cap {"symbol", "position_size", "stop_loss"} = {}

DailyLimitReached(sig) ==
    /\ "symbol" \notin sig.absent
    /\ daily_trades[<<sig.symbol, Days[today]>>] >= MAX_DAILY_TRADES

ProjectedExposure(sig) ==
    CurrentExposure(positions) + sig.position_size * sig.entry_price

\* |entry_price - stop_loss| / entry_price > 0.02; the quotient of a
\* non-negative number by a negative one is never above 0.02
StopFractionTooLarge(sig) ==
    /\ sig.entry_price > 0
    /\ 100 * Abs(sig.entry_price - sig.stop_loss) > 2 * sig.entry_price

AllChecksPass(sig) ==
    /\ FieldsPresent(sig)
    /\ sig.entry_price # 0
    /\ ~DailyLimitReached(sig)
    /\ ProjectedExposure(sig) <= MAX_POSITION_SIZE
    /\ ~StopFractionTooLarge(sig)

\* a step that is the call validate_trade(ret'.arg)
ValidateTradeStep ==
    ret'.op = "validate_trade" /\ ValidateTradeCall(ret'.arg)

\* C3: validateTrade returns true exactly for the signals for which every
\* check passes (daily count below the limit, projected exposure within
\* max_position_size, stop-loss fraction within stop_loss_percentage).
C3_TrueIffAllChecksPass ==
    [][ValidateTradeStep =>
           (ret'.result = RTrue <=> AllChecksPass(ret'.arg))]_vars

\* C4: a signal whose (symbol, today) daily count has reached
\* max_daily_trades is answered false, whatever its other fields are.
C4_DailyLimitRejects ==
    [][ValidateTradeStep /\ DailyLimitReached(ret'.arg) =>
           ret'.result = RFalse]_vars

C4_Witness ==
    /\ ret.op = "validate_trade"
    /\ ret.result = RFalse
    /\ DailyLimitReached(ret.arg)
    /\ FieldsPresent(ret.arg)
    /\ ProjectedExposure(ret.arg) <= MAX_POSITION_SIZE
    /\ ret.arg.entry_price > 0
    /\ ~StopFractionTooLarge(ret.arg)

\* C5: a signal whose stop-loss distance is a larger fraction of the entry
\* price than stop_loss_percentage is answered false.
C5_StopLossRejects ==
    [][ValidateTradeStep /\ "stop_loss" \notin ret'.arg.absent
                         /\ StopFractionTooLarge(ret'.arg) =>
           ret'.result = RFalse]_vars

C5_Witness ==
    /\ ret.op = "validate_trade"
    /\ ret.result = RFalse
    /\ FieldsPresent(ret.arg)
    /\ StopFractionTooLarge(ret.arg)
    /\ ~DailyLimitReached(ret.arg)
    /\ ProjectedExposure(ret.arg) <= MAX_POSITION_SIZE

\* C6: a signal whose notional added to the notional of the positions in the
\* position index exceeds max_position_size is answered false.
C6_ExposureRejects ==
    [][ValidateTradeStep /\ "position_size" \notin ret'.arg.absent
                         /\ ProjectedExposure(ret'.arg) > MAX_POSITION_SIZE =>
           ret'.result = RFalse]_vars

\* the signal alone is within the limit, the open positions push it over
C6_Witness ==
    /\ ret.op = "validate_trade"
    /\ ret.result = RFalse
    /\ FieldsPresent(ret.arg)
    /\ positions # <<>>
    /\ ret.arg.position_size * ret.arg.entry_price <= MAX_POSITION_SIZE
    /\ ProjectedExposure(ret.arg) > MAX_POSITION_SIZE
    /\ ~DailyLimitReached(ret.arg)
    /\ ~StopFractionTooLarge(ret.arg)

\* C7: validateTrade never raises; a failing check, entry_price = 0 or a
\* missing field gives false, and the daily counters and the position index
\* are left as they were.
C7_NeverRaises ==
    [][ValidateTradeStep =>
           /\ ret'.result \in {RTrue, RFalse}
           /\ (~AllChecksPass(ret'.arg) => ret'.result = RFalse)
           /\ UNCHANGED <<daily_trades, positions>>]_vars

\* a signal without its symbol: the KeyError is answered false
C7_Witness ==
    /\ ret.op = "validate_trade"
    /\ ret.result = RFalse
    /\ "symbol" \in ret.arg.absent

\* a step that is the call execute_trade(ret'.arg)
ExecuteTradeStep ==
    /\ ret'.op = "execute_trade"
    /\ ret'.arg \in ExecSignals
    /\ ExecuteTrade(ret'.arg)

\* C2: a signal that passes validation, with an exchange that accepts the
\* order, makes executeTrade return the order, and afterwards the order is in
\* the active-order index, one Position is persisted for it and
\* updateRiskMetrics has counted it.
C2_AcceptedTradeRegistered ==
    [][ExecuteTradeStep /\ AllChecksPass(ret'.arg)
                        /\ ret'.arg.exchange \in ExchangeApis
                        /\ ret'.env.accepts =>
           /\ ret'.result = ROrder
           /\ DOMAIN active_orders' # DOMAIN active_orders
           /\ Len(db') = Len(db) + 1
           /\ daily_trades' # daily_trades]_vars

\* C8: when validateTrade answers false, executeTrade returns failure at once:
\* neither the balance fetch nor the order placement is entered, and the
\* active-order index, the trades table and the daily counters stay.
C8_RejectedTradeLeavesNoTrace ==
    [][ExecuteTradeStep /\ ret'.env.validated = RFalse =>
           /\ ret'.result = RNone
           /\ ret'.steps = <<"validate">>
           /\ UNCHANGED <<active_orders, db, daily_trades>>]_vars

\* a rejected signal that the exchange and the database would have accepted
C8_Witness ==
    /\ ret.op = "execute_trade"
    /\ ret.env.validated = RFalse
    /\ ret.env.accepts
    /\ ret.arg.exchange \in ExchangeApis
    /\ ret.result = RNone
    /\ ret.steps = <<"validate">>

\* C9: a cycle of manageOpenPositions polls every order it started with,
\* whatever happens while one of them is polled or handled.
C9_CyclePollsEveryOrder ==
    pc \in {"sleep1", "sleep5"} => polled = cycle

\* C10: an order the gateway has reported Cancelled is no longer in the
\* active-order index (and so is not polled again).
C10_CancelledOrderDropped ==
    \A id \in cancelled : id \notin DOMAIN active_orders

\* a row as the state machine of an order sees it: Closed is a filled
\* Position whose exit_time is set
StatusOf(row) ==
    IF row.status = "FILLED" /\ row.exit_time # "none" THEN "CLOSED"
    ELSE row.status

StatusStep(old, new) ==
    \/ old = new
    \/ /\ StatusOf(old) = "PENDING"
       /\ StatusOf(new) \in {"FILLED", "CANCELLED", "REJECTED"}
    \/ /\ StatusOf(old) = "FILLED"
       /\ StatusOf(new) = "CLOSED"

OpenFilledRows ==
    { i \in 1..Len(db) : db[i].status = "FILLED" /\ db[i].exit_time = "none" }

RECURSIVE RowsNotional(_)
RowsNotional(ids) ==
    IF ids = {} THEN 0
    ELSE LET i == CHOOSE x \in ids : TRUE
         IN db[i].quantity * db[i].entry_price + RowsNotional(ids \ {i})

\* C13: when RiskManager.initialize() has completed, the position index has
\* one entry for each persisted trade that is filled and has no exit_time, and
\* nothing else; the current exposure is the sum of size x entry price of
\* those trades, also after a restart.
C13_PositionsMatchOpenTrades ==
    ret.op \in {"rm_initialize", "initialize", "restart"} /\ ret.result = RNone =>
        /\ DOMAIN positions = OpenFilledRows
        /\ \A i \in DOMAIN positions :
              /\ positions[i].size = db[i].quantity
              /\ positions[i].price = db[i].entry_price
        /\ CurrentExposure(positions) = RowsNotional(OpenFilledRows)

\* initialize() on a table with an open filled trade, a pending one and a
\* closed one
C13_Witness ==
    /\ ret.op = "rm_initialize"
    /\ ret.result = RNone
    /\ positions # <<>>
    /\ \E i \in 1..Len(db) : db[i].status = "PENDING" /\ db[i].exit_time = "none"
    /\ \E i \in 1..Len(db) : db[i].status = "FILLED" /\ db[i].exit_time # "none"

\* C14: for entry_price > 0 and stop_loss # entry_price, calculatePositionSize
\* returns min(balance x stop_loss_percentage / (|entry - stop| / entry),
\* max_position_size) rounded to 5 decimals, the same for the same inputs in
\* every state; entry 50000, stop 49000, balance 10000 gives 10000 uncapped
\* and max_position_size as the result.
C14_SizeFormula ==
    ret.op = "calculate_position_size" /\ ret.arg.entry_price > 0
                                       /\ ret.arg.stop_loss # ret.arg.entry_price =>
        LET num == ret.arg.balance * 2 * ret.arg.entry_price
            den == 100 * Abs(ret.arg.entry_price - ret.arg.stop_loss)
        IN /\ ret.result = RNone
           /\ IF num >= MAX_POSITION_SIZE * den
              THEN ret.size = MAX_POSITION_SIZE * 100000
              ELSE 2 * Abs(ret.size * den - num * 100000) <= den
           /\ (ret.arg.entry_price = 50000 /\ ret.arg.stop_loss = 49000
                  /\ ret.arg.balance = 10000) =>
                 (num = 10000 * den /\ ret.size = MAX_POSITION_SIZE * 100000)

\* a size below the cap that needs rounding up: 10 x 0.02 / 0.03 = 6.66667
C14_Witness ==
    /\ ret.op = "calculate_position_size"
    /\ ret.arg.entry_price = 100
    /\ ret.arg.stop_loss = 97
    /\ ret.arg.balance = 10
    /\ ret.size = 666667
    /\ positions # <<>>

\* C15: calculatePositionSize raises to its caller and returns no size when
\* entry_price = 0 or stop_loss = entry_price, for every account balance.
C15_ZeroRiskRaises ==
    ret.op = "calculate_position_size"
        /\ (ret.arg.entry_price = 0 \/ ret.arg.stop_loss = ret.arg.entry_price) =>
        ret.result = Raise /\ ret.size = 0

C15_Witness ==
    /\ ret.op = "calculate_position_size"
    /\ ret.arg.entry_price = 50000
    /\ ret.arg.stop_loss = 50000
    /\ ret.arg.balance = 10000
    /\ ret.result = Raise

\* a Position is long whether its direction is held as the string or as the
\* member of TradeDirection
IsLong(direction) == direction \in {"LONG", "TradeDirection.LONG"}

\* C16: the PnL of a closed Position is (exit_price - entry_price) x quantity
\* when it is long and (entry_price - exit_price) x quantity when it is short,
\* for every value its direction is stored as; long, entry 50000, quantity
\* 0.1, exit 51000 gives +100.
C16_PnlBySide ==
    ret.op = "calculate_pnl" =>
        ret.pnl = IF IsLong(ret.arg.direction)
                  THEN (ret.arg.exit_price - ret.arg.entry_price) * ret.arg.quantity
                  ELSE (ret.arg.entry_price - ret.arg.exit_price) * ret.arg.quantity

\* C19: checkRiskLimits returns, without raising, the three booleans
\* daily_trades_limit, drawdown_limit and exposure_limit.
C19_LimitsReturned ==
    ret.op = "check_risk_limits" => ret.result # Raise

\* the drawdown over the pnl values from position i on, in table order
RECURSIVE ChronologicalDrawdown(_, _, _, _)
ChronologicalDrawdown(i, cumulative, peak, worst) ==
    IF i > Len(db) THEN worst
    ELSE IF db[i].exit_time # "recent"
    THEN ChronologicalDrawdown(i + 1, cumulative, peak, worst)
    ELSE LET c == cumulative + db[i].pnl
             pk == IF c > peak THEN c ELSE peak
         IN ChronologicalDrawdown(i + 1, c, pk,
                                  IF pk - c > worst THEN pk - c ELSE worst)

\* C17: the max_drawdown updateRiskMetrics stores is the largest value of
\* (running peak of the cumulative PnL - cumulative PnL) over the closed
\* trades of the last 30 days taken in chronological order, in whatever order
\* the query returns them; for [+100, -30, +10, -200, +50] it is 220.
C17_DrawdownChronological ==
    risk_metrics # <<>> =>
        /\ risk_metrics[1].max_drawdown = ChronologicalDrawdown(1, 0, 0, 0)
        /\ (Len(db) = 5 /\ \A i \in 1..5 : db[i].exit_time = "recent") =>
              risk_metrics[1].max_drawdown = 220

\* stop_loss or take_profit on the wrong side of entry_price: a long (BUY)
\* needs stop_loss < entry_price < take_profit, a short (SELL) the reverse
WrongSide(sig) ==
    \/ /\ sig.action = "BUY"
       /\ ~(sig.stop_loss < sig.entry_price /\ sig.entry_price < sig.take_profit)
    \/ /\ sig.action = "SELL"
       /\ ~(sig.stop_loss > sig.entry_price /\ sig.entry_price > sig.take_profit)

ValidMessage(arg) ==
    /\ arg.exchange \in {"binance", "deribit"}
    /\ arg.message.form = "json"
    /\ arg.message.format = arg.exchange
    /\ arg.message.absent = {}
    /\ arg.message.text \subseteq {1}

\* C21: a raw message that normalises to a valid point is written to all three
\* sinks by process_market_data, Redis and the database being reachable: the
\* cache under the key of (exchange, pair) with the TTL, the pub/sub channel
\* and the market_data table
C21_AllThreeWrites ==
    (/\ ret.op = "process_market_data"
     /\ ValidMessage(ret.arg)
     /\ ret.arg.redis
     /\ ret.arg.db_ok)
    => /\ CacheWrite(ret.arg.exchange, ret.arg.symbol) \in cache
       /\ PublishWrite(ret.arg.exchange, ret.arg.symbol) \in published
       /\ \E row \in stored : row.exchange = ret.arg.exchange

\* ------------------------------------------------------------------- C22
\* C22: in mock mode, while the service runs and Redis is connected, the
\* generator has delivered a point tagged "mock" for every configured pair
\* whenever it sleeps between two passes: the cache entry and the publication
C22_MockDelivered ==
    (/\ streams \in {"mock_sleep1", "mock_sleep5"}
     /\ running
     /\ ingest_redis)
    => \A i \in DOMAIN TRADING_PAIRS :
          /\ CacheWrite("mock", TRADING_PAIRS[i]) \in cache
          /\ PublishWrite("mock", TRADING_PAIRS[i]) \in published

\* ------------------------------------------------------------------- C23
\* the message of a call lacks a required field, or the exchange is unknown
Dropped(arg) ==
    \/ arg.exchange \notin {"binance", "deribit"}
    \/ arg.message.form = "json" /\ arg.message.absent # {}

\* C23: a message that lacks a required field, or comes from an unknown
\* exchange, is dropped: nothing is written to the cache, the channel or the
\* table, process_market_data returns without raising, and a running stream
\* goes on to receive its next message; the mock generator, whose exchange tag
\* no normaliser knows, goes on to its next pass
C23_InvalidDropped ==
    [][/\ (ret' # ret /\ ret'.op = "process_market_data" /\ Dropped(ret'.arg))
          => /\ ret'.result = RNone
             /\ ret'.steps = <<>>
             /\ UNCHANGED sinkVars
             /\ running => task'[<<ret'.arg.exchange, ret'.arg.symbol>>]
                             = "receiving"
       /\ (ret' # ret /\ ret'.op = "mock_pass")
          => /\ ret'.result = RNone
             /\ ret'.steps = <<>>
             /\ UNCHANGED sinkVars
             /\ streams' = "mock_sleep1"]_vars

\* a message without its symbol was processed and the stream receives again
C23_Witness ==
    /\ ret.op = "process_market_data"
    /\ ret.arg.message.absent = {1}
    /\ ret.result = RNone
    /\ running
    /\ task[<<ret.arg.exchange, ret.arg.symbol>>] = "receiving"

\* ------------------------------------------------------------------- C24
\* DataIngestionService.stop() was called
StopCalled == stopper.pc # "idle"

\* C24: while the service runs, a subscription whose connection is lost or
\* fails to open waits in its backoff and then attempts a new connection, on
\* which it sends its subscription again, however often this happens; a
\* subscription task ends only after stop() was called
C24_ReconnectsUntilStopped ==
    /\ [](\A t \in StreamKeys : task[t] \in {"done", "failed"} => StopCalled)
    /\ [][\A t \in StreamKeys :
            /\ (task[t] \in {"connecting", "subscribing", "receiving"}
                /\ task'[t] \notin {"subscribing", "receiving", "done"})
               => task'[t] \in {task[t], "backoff"}
            /\ (task[t] = "connecting" /\ task'[t] # "connecting")
               => task'[t] \in {"subscribing", "backoff"}
            /\ (task[t] = "backoff" /\ task'[t] # "backoff")
               => task'[t] = IF running THEN "connecting" ELSE "done"]_vars
    /\ \A t \in StreamKeys :
          [](task[t] = "backoff" => <>(task[t] = "connecting" \/ ~running))

\* a subscription that had a connection and lost it attempts a new one
C24_Witness ==
    \E t \in StreamKeys :
        /\ running
        /\ task[t] = "connecting"
        /\ ConnIndex(connections, t) # 0
        /\ ~ConnOpen(connections, t)

\* ------------------------------------------------------------------- C25
\* the step is a failure in the subscription task of key t: its connection
\* attempt, its send or its recv raises
FailureStep(t) ==
    /\ task[t] \in {"connecting", "subscribing", "receiving"}
    /\ task'[t] \notin {task[t], "subscribing", "receiving", "done"}

\* C25: a connection failure in one subscription task neither stops nor
\* blocks the others: the step leaves every other task, every other socket,
\* the running flag and the reconciliation loop as they are, and in every
\* state, whatever the other tasks are doing, a task that awaits a message on
\* an open socket can take it and the reconciliation loop can take its next
\* step
C25_FailureIsolated ==
    /\ [][\A t \in StreamKeys :
            FailureStep(t)
            => /\ \A u \in StreamKeys \ {t} :
                     /\ task'[u] = task[u]
                     /\ ConnOpen(connections', u) = ConnOpen(connections, u)
               /\ UNCHANGED <<running, streams, loopVars, execVars>>]_vars
    /\ [](\A u \in StreamKeys :
            (running /\ task[u] = "receiving" /\ ConnOpen(connections, u))
            => ENABLED Receive(u))
    /\ [](/\ pc = "poll" => ENABLED PollOrder
          /\ pc \in {"sleep1", "sleep5"} => ENABLED Wake)

\* one subscription waits in its backoff while the other receives and the
\* reconciliation loop polls
C25_Witness ==
    \E t \in StreamKeys, u \in StreamKeys :
        /\ task[t] = "backoff"
        /\ task[u] = "receiving"
        /\ ConnOpen(connections, u)
        /\ ret.op = "process_market_data"
        /\ ret.arg.symbol = u[2]
        /\ pc = "poll"

\* ------------------------------------------------------------------- C26
\* TradeExecutor.stop() was called
ExecStopped == http_client = "closed"

\* C26: after TradeExecutor.stop() the reconciliation loop finishes the cycle
\* it is in and starts no other: once it is asleep between two cycles it sends
\* no further status request
C26_NoPollAfterStop ==
    [][(ExecStopped /\ pc \in {"sleep1", "sleep5"}) => pc' # "poll"]_vars

\* ------------------------------------------------------------------- C27
\* every subscription task and the mock generator have ended and no socket
\* is open
AllEnded ==
    /\ \A t \in StreamKeys : task[t] \in {"none", "done"}
    /\ streams \in {"off", "returned"}
    /\ \A i \in DOMAIN connections : connections[i].ws = "closed"

\* C27: once DataIngestionService.stop() has returned, every subscription
\* task and the mock generator end and every socket gets closed, wherever
\* each task was when stop() was called
C27_StopTerminates == [](stopper.pc = "returned" => <>AllEnded)

\* stop() has returned and tasks that had connected have ended
C27_Witness ==
    /\ stopper.pc = "returned"
    /\ AllEnded
    /\ streams = "returned"
    /\ Len(connections) = 2

\* ------------------------------------------------------------------- C28
\* C28: a stop() that is not the first does not raise and leaves the component
\* as the first call left it, nothing open: for the DataIngestionService the
\* flag cleared, the Redis client gone and every registered socket closed;
\* for the TradeExecutor both Redis clients gone and the HTTP client closed
C28_StopIdempotent ==
    [][/\ (stopper' # stopper /\ stopper'.again)
          => /\ stopper'.pc # "raised"
             /\ stopper'.pc = "returned"
                => /\ ~running'
                   /\ ~ingest_redis'
                   /\ \A i \in DOMAIN connections' :
                         connections'[i].ws = "closed"
       /\ (ret' # ret /\ ret'.op = "exec_stop" /\ ExecStopped)
          => /\ ret'.result = RNone
             /\ ~exec_redis'
             /\ ~redis_connected'
             /\ http_client' = "closed"]_vars

\* ------------------------------------------------------------------- C29
\* C29: no transient I/O error leaves start_data_streams or
\* manage_open_positions.  A failing connection attempt, send or recv sends
\* its task into the sleep(5) of its handler, the flag and start_data_streams
\* stay as they are, and after the sleep the task connects again; a status
\* request that fails answers UNKNOWN and the reconciliation loop goes on with
\* its cycle, sleeps and starts the next cycle
C29_ErrorsStayInside ==
    /\ [](streams # "raised" /\ \A t \in StreamKeys : task[t] # "failed")
    /\ [][/\ \A t \in StreamKeys :
               /\ FailureStep(t)
                  => /\ task'[t] = "backoff"
                     /\ UNCHANGED <<running, streams>>
               /\ (running /\ task[t] = "backoff" /\ task'[t] # "backoff")
                  => task'[t] = "connecting"
          /\ (ret' # ret /\ ret'.op = "poll" /\ ret'.result = "UNKNOWN")
             => pc' \in {"poll", "sleep1"}
          /\ pc # "off" => pc' \in {"poll", "sleep1", "sleep5"}]_vars
    /\ [](pc \in {"sleep1", "sleep5"} => ENABLED Wake)

\* a subscription waits in its backoff and the reconciliation loop sleeps
\* after a status request that failed
C29_Witness ==
    \E t \in StreamKeys :
        /\ running
        /\ task[t] = "backoff"
        /\ ret.op = "poll"
        /\ ret.result = "UNKNOWN"
        /\ pc = "sleep1"

\* ------------------------------------------------------------------- C30
\* the last status request was for order o and failed, or its answer carried
\* a status the loop does not act on
PollFailed(o) ==
    /\ ret.op = "poll"
    /\ ret.arg.order_id = o
    /\ ret.result \in {"UNKNOWN", "NEW"}

\* C30: a status request that fails or answers an unrecognised status leaves
\* the order in active_orders with its entry as it was and leaves the
\* positions and the trades table alone, and the order is polled again in a
\* cycle that starts afterwards
C30_FailedPollRetried ==
    /\ [][(ret' # ret /\ ret'.op = "poll" /\ ret'.result \in {"UNKNOWN", "NEW"})
          => UNCHANGED <<active_orders, positions, db>>]_vars
    /\ \A o \in 1..Len(LoopTable) :
          [](PollFailed(o)
             => <>(pc = "poll" /\ polled = {} /\ <>(o \in polled)))

\* C31: initialize() returns normally whatever the credentials of the enabled
\* exchanges are, and leaves as the active set exactly the enabled exchanges
\* whose configuration is valid (binance with its credentials; nothing makes
\* deribit valid); start_data_streams() on an empty active set runs the mock
\* generator and no subscription task, and none is opened while it runs.
C31_ActiveSetAndMockFallback ==
    /\ [](streams \in {"mock_sleep1", "mock_sleep5"} =>
            /\ connections = <<>>
            /\ \A t \in StreamKeys : task[t] = "none")
    /\ [][/\ ret'.op = "ingest_initialize" /\ ret.op # "ingest_initialize" =>
                /\ ret'.result = RNone
                /\ enabled_exchanges' =
                     IF ret'.arg.credentials THEN <<"binance">> ELSE <<>>
          /\ streams = "off" /\ streams' # "off" =>
                IF enabled_exchanges = <<>>
                THEN /\ streams' \in {"mock_sleep1", "mock_sleep5"}
                     /\ ret'.op = "mock_pass"
                     /\ task' = task
                ELSE streams' = "gather"]_vars

\* the mock generator runs after an initialize() without credentials
C31_Witness ==
    /\ streams \in {"mock_sleep1", "mock_sleep5"}
    /\ running
    /\ enabled_exchanges = <<>>
    /\ ret.op = "mock_pass"

\* C32: once manage_open_positions runs, every order of active_orders is
\* polled again and again for as long as it stays there: whatever the other
\* orders answer, a status request for it is made infinitely often.
C32_NoTrackedOrderStarved ==
    \A o \in 1..Len(LoopTable) :
        []<>(\/ pc = "off"
             \/ o \notin DOMAIN active_orders
             \/ o \in polled)

\* C35: after start-up, the positions and the daily counters a validate_trade
\* call consults, whether it comes from execute_trade or from the risk API,
\* are those of the one RiskManager the TradeExecutor of main.py writes: they
\* hold a position for every persisted trade that is filled and not closed.
C35_OnePositionState ==
    initialized =>
        /\ ret.op = "execute_trade" => DOMAIN positions = OpenFilledRows
        /\ ret.op \in {"api_validate_trade", "api_execute_trade"} =>
              /\ DOMAIN ret.consulted.positions = OpenFilledRows
              /\ ret.consulted.positions = positions
              /\ ret.consulted.daily_trades = daily_trades

\* C36: when a fill is confirmed for a pending order, by the status poll of
\* the loop or by update_trade_status, its Position is persisted as FILLED,
\* the active orders stay as they are, and exit_time and pnl of the Position
\* stay unset.
C36_FillPersistedNotClosed ==
    [][\A id \in 1..Len(db) :
          (/\ ret' # ret
           /\ \/ /\ ret'.op = "update_trade_status"
                 /\ ret'.arg.trade_id = id
                 /\ ret'.arg.status = "FILLED"
              \/ /\ ret'.op = "poll"
                 /\ ret'.arg.order_id = id
                 /\ ret'.result = "FILLED"
           /\ db[id].exit_time = "none"
           /\ db[id].status \in {"PENDING", "FILLED"})
          => /\ db'[id].status = "FILLED"
             /\ db'[id].exit_time = "none"
             /\ db'[id].pnl = db[id].pnl
             /\ active_orders' = active_orders]_vars

\* C37: no order of active_orders is terminal: none was reported CANCELLED
\* by the gateway, none is registered with the status REJECTED or CANCELLED,
\* and the Position of none is closed, cancelled or rejected.
C37_NoTerminalOrderTracked ==
    \A o \in DOMAIN active_orders :
        /\ o \notin cancelled
        /\ active_orders[o].status \notin {"REJECTED", "CANCELLED", "CLOSED"}
        /\ o \in 1..Len(db) =>
              StatusOf(db[o]) \notin {"CLOSED", "CANCELLED", "REJECTED"}

\* C39: POST /trading/execute answers a trade that execute_trade turned down
\* (it returned None) with a 4xx status, and answers 5xx only when
\* execute_trade raised.
C39_RejectionIsClientError ==
    ret.op = "api_execute_trade" =>
        /\ ret.result = RNone => ret.answer.status \in 400..499
        /\ ret.answer.status \in 500..599 => ret.result = Raise

\* C40: GET /market-data/latest/{exchange}/{pair} answers 200 with the point
\* cached under market_data:{exchange}:{pair} where there is one, else 200
\* with the newest stored row of that exchange and pair, and 404 only where
\* there is neither.
C40_LatestPointServed ==
    [][ret' # ret /\ ret'.op = "api_latest_market_data" =>
          LET exchange == ret'.arg.exchange
              trading_pair == ret'.arg.symbol
              row == StoreWrite([exchange |-> exchange, symbol |-> trading_pair])
          IN IF CacheWrite(exchange, trading_pair) \in cache
             THEN /\ ret'.answer.status = 200
                  /\ ret'.answer.value = CacheWrite(exchange, trading_pair)
             ELSE IF row \in stored
             THEN ret'.answer.status = 200 /\ ret'.answer.value = "row"
             ELSE ret'.answer.status = 404]_vars

====
